---------------------------- MODULE Spec2Model ----------------------------
(***************************************************************************)
(* A model of the monster nickname resolution engine of rpad-cogs          *)
(* (padguide2/padguide2.py, padinfo/padinfo.py).                           *)
(*                                                                         *)
(* The module holds several specifications over one set of variables:      *)
(*   SpecCog    the PadGuide2 cog: the refresh loop, the published         *)
(*              generation, queries made between refresh attempts          *)
(*   SpecDb     the construction of one PgRawDatabase generation           *)
(*   SpecIndex  the construction of MonsterIndex and find_monster          *)
(*   SpecOverrides  the override tables of one refresh                     *)
(*   SpecNames      the basename and the prefixes of one monster           *)
(*   SpecPadInfo    the PadInfo cog: its refresh loop and its maps         *)
(*   SpecRefresh    the refresh loop of either cog under fair scheduling   *)
(* A specification leaves the variables of the others at Idle.             *)
(***************************************************************************)
EXTENDS Integers, Sequences, FiniteSets, TLC

VARIABLES
    cog,        \* SpecCog: the attributes PadGuide2 publishes (self.*)
    task,       \* SpecCog: reload_data_task: its position and last wait
    attempt,    \* SpecCog: number of refresh attempts started so far
    observed,   \* SpecCog: what the last query / create_index call saw
                \* (SpecPadInfo: what findMonster saw since the last refresh)
    files,      \* SpecDb: the list files PgRawDatabase reads (its input)
    db,         \* SpecDb: the PgRawDatabase under construction
    data,       \* SpecIndex: the arguments of MonsterIndex (its input)
    index,      \* SpecIndex: the MonsterIndex generations built from data
    result      \* SpecIndex: the last query and what find_monster did

cogvars == <<cog, task, attempt, observed>>
dbvars == <<files, db>>
idxvars == <<data, index, result>>
vars == <<cog, task, attempt, observed, files, db, data, index, result>>

Idle == "idle"

(***************************************************************************)
(*                         PadGuide2 (the cog)                             *)
(***************************************************************************)

\* Bound: refresh attempts explored.
MaxAttempts == 3

\* The attribute self.index does not exist until the first successful refresh.
Unset == [gen |-> -1]

\* An object produced by refresh attempt g (0: produced by the constructor).
Made(g) == [gen |-> g]

\* An index remembers the three objects its constructor was handed.
MadeIndex(g, database, nick, base) ==
    [gen |-> g, database |-> database, nickname_overrides |-> nick,
     basename_overrides |-> base]

\* PadGuide2.__init__: empty override tables, a skip_load database, no index.
PadGuide2Init ==
    [nickname_overrides |-> Made(0),
     basename_overrides |-> Made(0),
     database           |-> Made(0),
     index              |-> Unset]

\* The places where download_and_refresh_nicknames can raise, in program order.
FailPoints ==
    {"download_files", "csv_nicknames", "csv_basenames", "int_nickname",
     "int_basename", "PgRawDatabase", "MonsterIndex"}

\* download_and_refresh_nicknames, attempt g, raising at `fail` ("none": it
\* returns).  Each attribute is assigned as soon as its value is computed.
download_and_refresh_nicknames(c, g, fail) ==
    LET c1 == IF fail \in {"download_files", "csv_nicknames", "csv_basenames",
                           "int_nickname"}
              THEN c
              ELSE [c EXCEPT !.nickname_overrides = Made(g),
                             !.basename_overrides = Made(g)]
        c2 == IF fail \in {"download_files", "csv_nicknames", "csv_basenames",
                           "int_nickname", "int_basename", "PgRawDatabase"}
              THEN c1
              ELSE [c1 EXCEPT !.database = Made(g)]
        c3 == IF fail # "none"
              THEN c2
              ELSE [c2 EXCEPT !.index =
                       MadeIndex(g, c2.database, c2.nickname_overrides,
                                 c2.basename_overrides)]
    IN c3

\* The waits of reload_data_task, in seconds.
ShortWait == 60
LongWait == 60 * 60 * 4

\* wait_time = 60 if short_wait else 60 * 60 * 4
wait_time_always_long(short_wait) == LongWait

wait_time(short_wait) == IF short_wait THEN ShortWait ELSE LongWait

\* One pass of the loop body of reload_data_task up to the sleep.
reload_data_task_attempt ==
    /\ task.pc = "loop"
    /\ attempt < MaxAttempts
    /\ \E fail \in FailPoints \cup {"none"} :
          /\ cog' = download_and_refresh_nicknames(cog, attempt + 1, fail)
          /\ task' = [pc |-> "sleep",
                      short_wait |-> (fail # "none"),
                      wait_time |-> wait_time(fail # "none"),
                      registered |-> task.registered]
    /\ attempt' = attempt + 1
    /\ UNCHANGED <<observed, dbvars, idxvars>>

\* asyncio.sleep returns and the loop condition is evaluated again:
\* while self == self.bot.get_cog('PadGuide2').
reload_data_task_wake ==
    /\ task.pc = "sleep"
    /\ task' = [task EXCEPT !.pc = IF task.registered THEN "loop" ELSE "done"]
    /\ UNCHANGED <<cog, attempt, observed, dbvars, idxvars>>

\* The bot removes the cog (unload or reload) while the task sleeps; the
\* event loop runs nothing else between the loop condition and the sleep.
remove_cog ==
    /\ task.pc = "sleep"
    /\ task.registered
    /\ task' = [task EXCEPT !.registered = FALSE]
    /\ UNCHANGED <<cog, attempt, observed, dbvars, idxvars>>

\* PadGuide2.create_index, called by another cog between attempts.
create_index ==
    /\ task.pc = "sleep" \/ (task.pc = "loop" /\ attempt = 0)
    /\ observed' = [call |-> "create_index",
                    index |-> MadeIndex(attempt, cog.database,
                                        cog.nickname_overrides,
                                        cog.basename_overrides)]
    /\ UNCHANGED <<cog, task, attempt, dbvars, idxvars>>

\* The query command: self.index.find_monster(query).
query ==
    /\ task.pc = "sleep" \/ (task.pc = "loop" /\ attempt = 0)
    /\ task.registered
    /\ observed' = IF cog.index = Unset
                   THEN [call |-> "query", index |-> Unset, raised |-> TRUE]
                   ELSE [call |-> "query", index |-> cog.index, raised |-> FALSE]
    /\ UNCHANGED <<cog, task, attempt, dbvars, idxvars>>

InitCog ==
    /\ cog = PadGuide2Init
    /\ task = [pc |-> "loop", short_wait |-> FALSE, wait_time |-> 0,
               registered |-> TRUE]
    /\ attempt = 0
    /\ observed = [call |-> "none"]
    /\ files = Idle /\ db = Idle
    /\ data = Idle /\ index = Idle /\ result = Idle

NextCog ==
    \/ reload_data_task_attempt
    \/ reload_data_task_wake
    \/ remove_cog
    \/ create_index
    \/ query

SpecCog == InitCog /\ [][NextCog]_vars

(***************************************************************************)
(*                              Strings                                    *)
(*                                                                         *)
(* A str is a sequence of characters; a character is a one-character       *)
(* string, or a name for a character outside ASCII: "sup2" is U+00B2       *)
(* SUPERSCRIPT TWO (str.isdigit() is true of it, int() rejects it), "e'"   *)
(* is U+00E9 (e with acute) and "ka" is U+30AB (KATAKANA LETTER KA).       *)
(***************************************************************************)

UpperCase == <<"A", "B", "C", "D", "E", "F", "G", "H", "I", "J", "K", "L", "M",
               "N", "O", "P", "Q", "R", "S", "T", "U", "V", "W", "X", "Y", "Z">>
LowerCase == <<"a", "b", "c", "d", "e", "f", "g", "h", "i", "j", "k", "l", "m",
               "n", "o", "p", "q", "r", "s", "t", "u", "v", "w", "x", "y", "z">>
DecimalDigits == <<"0", "1", "2", "3", "4", "5", "6", "7", "8", "9">>

Japanese == <<"ka", "ni", "mi", "shou", "kaku", "ten", "sei">>

\* The characters in code point order.
CodePoints ==
    <<" ", ",", "-", "/">> \o DecimalDigits \o UpperCase \o LowerCase
        \o <<"sup2", "e'">> \o Japanese

IndexOf(seq, c) == CHOOSE i \in 1..Len(seq) : seq[i] = c
InSeq(seq, c) == \E i \in 1..Len(seq) : seq[i] = c

ord(c) == IndexOf(CodePoints, c)

\* str.lower
lower_char(c) == IF InSeq(UpperCase, c) THEN LowerCase[IndexOf(UpperCase, c)] ELSE c
lower(s) == [i \in 1..Len(s) |-> lower_char(s[i])]

\* str.strip
strip(s) ==
    LET keep == {i \in 1..Len(s) : s[i] # " "}
    IN  IF keep = {} THEN <<>>
        ELSE SubSeq(s, CHOOSE i \in keep : \A j \in keep : i <= j,
                       CHOOSE i \in keep : \A j \in keep : j <= i)

\* str.startswith
startswith(s, prefix) ==
    Len(prefix) <= Len(s) /\ SubSeq(s, 1, Len(prefix)) = prefix

\* sub in s
contains(s, sub) ==
    \E i \in 0..(Len(s) - Len(sub)) : SubSeq(s, i + 1, i + Len(sub)) = sub

\* str.isdigit: every character has the Unicode property Digit, which the
\* decimal digits and the superscript digits have.
isdigit(s) ==
    Len(s) > 0 /\ \A i \in 1..Len(s) : InSeq(DecimalDigits, s[i]) \/ s[i] = "sup2"

\* int() accepts decimal digits.
int_accepts(s) == Len(s) > 0 /\ \A i \in 1..Len(s) : InSeq(DecimalDigits, s[i])

RECURSIVE int(_)
int(s) ==
    IF s = <<>> THEN 0
    ELSE 10 * int(SubSeq(s, 1, Len(s) - 1)) + (IndexOf(DecimalDigits, s[Len(s)]) - 1)

\* a < b for str: by code point, a proper prefix first.
RECURSIVE str_less(_, _)
str_less(a, b) ==
    IF b = <<>> THEN FALSE
    ELSE IF a = <<>> THEN TRUE
    ELSE IF a[1] # b[1] THEN ord(a[1]) < ord(b[1])
    ELSE str_less(Tail(a), Tail(b))

\* str.split(sep) for a one-character sep
RECURSIVE split(_, _)
split(s, sep) ==
    IF ~InSeq(s, sep) THEN <<s>>
    ELSE LET i == CHOOSE i \in 1..Len(s) :
                     s[i] = sep /\ \A j \in 1..(i - 1) : s[j] # sep
         IN  <<SubSeq(s, 1, i - 1)>> \o split(SubSeq(s, i + 1, Len(s)), sep)

\* str.replace(old, new) for a non-empty old
RECURSIVE replace(_, _, _)
replace(s, old, new) ==
    IF Len(s) < Len(old) THEN s
    ELSE IF SubSeq(s, 1, Len(old)) = old
    THEN new \o replace(SubSeq(s, Len(old) + 1, Len(s)), old, new)
    ELSE <<s[1]>> \o replace(Tail(s), old, new)

\* rpadutils.rmdiacritics: a character with a diacritic becomes its base
\* character.
rmdiacritics(s) == [i \in 1..Len(s) |-> IF s[i] = "e'" THEN "e" ELSE s[i]]

\* rpadutils.containsJp
containsJp(s) == \E i \in 1..Len(s) : InSeq(Japanese, s[i])

(***************************************************************************)
(*                 PgRawDatabase (one dataset generation)                  *)
(*                                                                         *)
(* The list files are sequences of rows.  Numeric fields hold the number   *)
(* int() parses, an empty numeric field ('' -> None) holds None, and the   *)
(* fields the code compares as text ('Y', '1') hold the text.  The types   *)
(* modelled are those whose load or finalize the claims read; the others   *)
(* (PgAttribute, PgType, PgSkillLeaderData, PgDungeonMonsterDrop) have no  *)
(* rows.                                                                   *)
(***************************************************************************)

\* Bounds: the monsters are 1..MaxMonsters; rows of evolutionList.jsp.
MaxMonsters == 3
MaxEvolutions == 2

\* dict.get() of a missing key, int_or_none('').
None == -1

\* EvoType
Base == -1
Evo == 0
UvoAwoken == 1
UuvoReincarnated == 2

NoError == "none"

Item(t, k) == [type |-> t, key |-> k]

\* The modelled item types, in the order PgRawDatabase.__init__ loads them.
TypeOrder ==
    <<"PgAwakening", "PgDungeon", "PgDungeonMonster", "PgEvolution",
      "PgEvolutionMaterial", "PgMonster", "PgMonsterAddInfo", "PgMonsterInfo",
      "PgMonsterPrice", "PgSeries", "PgSkill", "PgSkillRotation",
      "PgSkillRotationDated">>

Types == {TypeOrder[i] : i \in 1..Len(TypeOrder)}

\* PgItem.key
key(t, row) ==
    CASE t = "PgAwakening"      -> row.TMA_SEQ
      [] t = "PgDungeon"        -> row.DUNGEON_SEQ
      [] t = "PgDungeonMonster" -> row.TDM_SEQ
      [] t = "PgEvolution"      -> row.TV_SEQ
      [] t = "PgEvolutionMaterial" -> row.TEM_SEQ
      [] t = "PgMonster"        -> row.MONSTER_NO
      [] t = "PgMonsterAddInfo" -> row.MONSTER_NO
      [] t = "PgMonsterInfo"    -> row.MONSTER_NO
      [] t = "PgMonsterPrice"   -> row.MONSTER_NO
      [] t = "PgSeries"         -> row.TSR_SEQ
      [] t = "PgSkill"          -> row.TS_SEQ
      [] t = "PgSkillRotation"  -> row.TSR_SEQ
      [] t = "PgSkillRotationDated" -> row.TSRL_SEQ

\* PgItem.deleted and its overrides
deleted(t, row) ==
    CASE t = "PgAwakening" -> row.DEL_YN = "Y"
      [] t = "PgSeries"    -> row.DEL_YN = "Y"
      [] t = "PgEvolution" -> row.MONSTER_NO = 0 \/ row.TO_NO = 0
      [] t = "PgSkillRotation" -> row.SERVER = "KR"
      [] OTHER             -> FALSE

\* Mutant of _load: deleted rows are kept.
_load_keeping_deleted(f, t) == f[t]

\* PgRawDatabase._load: the rows that are not deleted, in file order.
_load(f, t) == SelectSeq(f[t], LAMBDA row : ~deleted(t, row))

ItemsOf(maps, t) == [i \in 1..Len(maps[t]) |-> Item(t, key(t, maps[t][i]))]

RECURSIVE AllItems(_, _)
AllItems(maps, n) ==
    IF n = 0 THEN <<>> ELSE AllItems(maps, n - 1) \o ItemsOf(maps, TypeOrder[n])

\* Mutant of weighted_stats: each quotient is truncated before the sum.
weighted_stats_of_truncated_terms(hp, atk, rcv) ==
    (hp \div 10) + (atk \div 5) + (rcv \div 3)

\* PgMonster.__init__, line 795: int(hp / 10 + atk / 5 + rcv / 3).  The three
\* quotients are floats and int() drops the fraction of their sum; the sum
\* is (3 hp + 6 atk + 10 rcv) / 30, and for stats of the size the game has
\* the float sum and this fraction have the same integer part.
weighted_stats(hp, atk, rcv) == (3 * hp + 6 * atk + 10 * rcv) \div 30

\* PgMonster.__init__: the attributes the constructor sets; the attributes
\* load and finalize create hold FALSE / 0 until they are assigned.
PgMonster(row) ==
    [monster_no    |-> row.MONSTER_NO,
     monster_no_na |-> row.MONSTER_NO_US,
     hp            |-> row.HP_MAX,
     atk           |-> row.ATK_MAX,
     rcv           |-> row.RCV_MAX,
     weighted_stats |-> weighted_stats(row.HP_MAX, row.ATK_MAX, row.RCV_MAX),
     rarity        |-> row.RARITY,
     cur_evo_type  |-> Base,
     evo_to        |-> <<>>,
     evo_from      |-> None,
     awakenings    |-> <<>>,
     drop_dungeons |-> <<>>,
     mats_for_evo  |-> <<>>,
     material_of   |-> <<>>,
     in_pem        |-> FALSE,  in_rem   |-> FALSE,  in_mpshop |-> FALSE,
     pem_evo       |-> FALSE,  rem_evo  |-> FALSE,  mp_evo    |-> FALSE,
     sell_mp       |-> 0,      buy_mp   |-> 0,
     is_inheritable |-> FALSE,
     farmable      |-> FALSE,  farmable_evo |-> FALSE]

Has(d, t, k) == \E i \in 1..Len(d.maps[t]) : key(t, d.maps[t][i]) = k

Row(d, t, k) ==
    d.maps[t][CHOOSE i \in 1..Len(d.maps[t]) : key(t, d.maps[t][i]) = k]

\* Mutant of Begin: _loaded is left unset.
Begin_unmarked(d, it) == [d EXCEPT !.load_count[it] = @ + 1]

\* PgItem.ensure_loaded, up to the call of load: _loaded is set first.
Begin(d, it) ==
    [d EXCEPT !.loaded = @ \cup {it}, !.load_count[it] = @ + 1]

\* Mutant of Raise: the missing record is passed over.
Raise_passed_over(d, what) == d

\* An exception leaves load; nothing below catches it.
Raise(d, what) == [d EXCEPT !.error = what]

\* _ensure_loaded(map.get(k)) for a type whose load is `pass`.
ensure_loaded_pass(d, t, k) ==
    IF d.error # NoError \/ ~Has(d, t, k) \/ Item(t, k) \in d.loaded
    THEN d
    ELSE Begin(d, Item(t, k))

getDungeon(d, k) == ensure_loaded_pass(d, "PgDungeon", k)
getMonsterAddInfo(d, k) == ensure_loaded_pass(d, "PgMonsterAddInfo", k)
getMonsterPrice(d, k) == ensure_loaded_pass(d, "PgMonsterPrice", k)
getSeries(d, k) == ensure_loaded_pass(d, "PgSeries", k)
getSkill(d, k) == ensure_loaded_pass(d, "PgSkill", k)

\* PgMonsterInfo.load
PgMonsterInfo_load(d, k) == getSeries(d, Row(d, "PgMonsterInfo", k).TSR_SEQ)

getMonsterInfo(d, k) ==
    IF d.error # NoError \/ ~Has(d, "PgMonsterInfo", k)
          \/ Item("PgMonsterInfo", k) \in d.loaded
    THEN d
    ELSE PgMonsterInfo_load(Begin(d, Item("PgMonsterInfo", k)), k)

\* PgMonster.load, lines 869-875
is_inheritable(assist_setting, awakenings, rarity, sell_mp) ==
    IF assist_setting = 1 THEN TRUE
    ELSE IF assist_setting = 2 THEN FALSE
    ELSE Len(awakenings) > 0 /\ rarity >= 5 /\ sell_mp > 3000

\* PgMonster.load
PgMonster_load(d, k) ==
    LET row == Row(d, "PgMonster", k)
        d1  == getSkill(getSkill(d, row.TS_SEQ_SKILL), row.TS_SEQ_LEADER)
        d2  == getMonsterAddInfo(d1, k)
        assist_setting == IF Has(d, "PgMonsterAddInfo", k)
                          THEN Row(d, "PgMonsterAddInfo", k).EXTRA_VAL1
                          ELSE None
        d3  == getMonsterInfo(d2, k)
    IN  IF ~Has(d, "PgMonsterInfo", k)
        THEN Raise(d3, "PgMonster.load: monster_info is None")
        ELSE
        LET info == Row(d, "PgMonsterInfo", k)
            d4   == getSeries(d3, info.TSR_SEQ)
        IN  IF ~Has(d, "PgSeries", info.TSR_SEQ)
            THEN Raise(d4, "PgMonster.load: series is None")
            ELSE
            LET d5 == getMonsterPrice(d4, k)
            IN  IF ~Has(d, "PgMonsterPrice", k)
                THEN Raise(d5, "PgMonster.load: monster_price is None")
                ELSE
                LET price == Row(d, "PgMonsterPrice", k)
                    m     == d5.mon[k]
                IN  [d5 EXCEPT !.mon[k] =
                       [m EXCEPT
                          !.in_pem = (info.PAL_EGG = "1"),
                          !.in_rem = (info.RARE_EGG = "1"),
                          !.pem_evo = (info.PAL_EGG = "1"),
                          !.rem_evo = (info.RARE_EGG = "1"),
                          !.sell_mp = price.SELL_PRICE,
                          !.buy_mp = price.BUY_PRICE,
                          !.in_mpshop = (price.BUY_PRICE > 0),
                          !.mp_evo = (price.BUY_PRICE > 0),
                          !.is_inheritable =
                              is_inheritable(assist_setting, m.awakenings,
                                             m.rarity, price.SELL_PRICE)]]

getMonster(d, k) ==
    IF d.error # NoError \/ ~Has(d, "PgMonster", k)
          \/ Item("PgMonster", k) \in d.loaded
    THEN d
    ELSE PgMonster_load(Begin(d, Item("PgMonster", k)), k)

\* PgAwakening.load
PgAwakening_load(d, k) ==
    LET row == Row(d, "PgAwakening", k)
        d1  == getMonster(getSkill(d, row.TS_SEQ), row.MONSTER_NO)
    IN  IF d1.error # NoError THEN d1
        ELSE IF ~Has(d, "PgMonster", row.MONSTER_NO)
        THEN Raise(d1, "PgAwakening.load: monster is None")
        ELSE
        LET d2 == [d1 EXCEPT !.mon[row.MONSTER_NO].awakenings = Append(@, k)]
        IN  IF ~Has(d, "PgSkill", row.TS_SEQ)
            THEN Raise(d2, "PgAwakening.load: skill is None")
            ELSE d2

\* PgDungeonMonster.load
PgDungeonMonster_load(d, k) ==
    LET row == Row(d, "PgDungeonMonster", k)
        d1  == getDungeon(getMonster(getMonster(d, row.DROP_NO), row.MONSTER_NO),
                          row.DUNGEON_SEQ)
        dungeon == IF Has(d, "PgDungeon", row.DUNGEON_SEQ)
                   THEN row.DUNGEON_SEQ ELSE None
    IN  IF d1.error # NoError THEN d1
        ELSE IF Has(d, "PgMonster", row.DROP_NO)
        THEN [d1 EXCEPT !.mon[row.DROP_NO].drop_dungeons = Append(@, dungeon)]
        ELSE d1

\* PgEvolution.load
PgEvolution_load(d, k) ==
    LET row == Row(d, "PgEvolution", k)
        d1  == getMonster(getMonster(d, row.MONSTER_NO), row.TO_NO)
    IN  IF d1.error # NoError THEN d1
        ELSE IF ~Has(d, "PgMonster", row.TO_NO)
        THEN Raise(d1, "PgEvolution.load: to_monster is None")
        ELSE
        LET from == IF Has(d, "PgMonster", row.MONSTER_NO)
                    THEN row.MONSTER_NO ELSE None
            d2 == [d1 EXCEPT !.mon[row.TO_NO].cur_evo_type = row.TV_TYPE,
                             !.mon[row.TO_NO].evo_from = from]
        IN  IF from = None
            THEN Raise(d2, "PgEvolution.load: from_monster is None")
            ELSE [d2 EXCEPT !.mon[from].evo_to = Append(@, row.TO_NO)]

getEvolution(d, k) ==
    IF d.error # NoError \/ ~Has(d, "PgEvolution", k)
          \/ Item("PgEvolution", k) \in d.loaded
    THEN d
    ELSE PgEvolution_load(Begin(d, Item("PgEvolution", k)), k)

\* PgEvolutionMaterial.load: None is appended to mats_for_evo before the
\* attribute of a missing fodder monster is read.
PgEvolutionMaterial_load(d, k) ==
    LET row == Row(d, "PgEvolutionMaterial", k)
        d1  == getMonster(getEvolution(d, row.TV_SEQ), row.MONSTER_NO)
    IN  IF d1.error # NoError \/ ~Has(d, "PgEvolution", row.TV_SEQ) THEN d1
        ELSE
        LET target_monster == Row(d, "PgEvolution", row.TV_SEQ).TO_NO
            fodder_monster == IF Has(d, "PgMonster", row.MONSTER_NO)
                              THEN row.MONSTER_NO ELSE None
            d2 == [d1 EXCEPT !.mon[target_monster].mats_for_evo =
                                 Append(@, fodder_monster)]
        IN  IF fodder_monster = None
            THEN Raise(d2, "PgEvolutionMaterial.load: fodder_monster is None")
            ELSE [d2 EXCEPT !.mon[fodder_monster].material_of =
                                Append(@, target_monster)]

\* PgSkillRotation.load
PgSkillRotation_load(d, k) ==
    getMonster(d, Row(d, "PgSkillRotation", k).MONSTER_NO)

getSkillRotation(d, k) ==
    IF d.error # NoError \/ ~Has(d, "PgSkillRotation", k)
          \/ Item("PgSkillRotation", k) \in d.loaded
    THEN d
    ELSE PgSkillRotation_load(Begin(d, Item("PgSkillRotation", k)), k)

\* PgSkillRotationDated.load
PgSkillRotationDated_load(d, k) ==
    LET row == Row(d, "PgSkillRotationDated", k)
    IN  getSkillRotation(getSkill(d, row.TS_SEQ), row.TSR_SEQ)

\* PgRawDatabase._ensure_loaded(item) for a stored item.
_ensure_loaded(d, it) ==
    IF d.error # NoError \/ it \in d.loaded THEN d
    ELSE
    LET b == Begin(d, it)
    IN  CASE it.type = "PgAwakening"      -> PgAwakening_load(b, it.key)
          [] it.type = "PgDungeonMonster" -> PgDungeonMonster_load(b, it.key)
          [] it.type = "PgEvolution"      -> PgEvolution_load(b, it.key)
          [] it.type = "PgEvolutionMaterial" ->
                 PgEvolutionMaterial_load(b, it.key)
          [] it.type = "PgSkillRotation"  -> PgSkillRotation_load(b, it.key)
          [] it.type = "PgSkillRotationDated" ->
                 PgSkillRotationDated_load(b, it.key)
          [] it.type = "PgMonster"        -> PgMonster_load(b, it.key)
          [] it.type = "PgMonsterInfo"    -> PgMonsterInfo_load(b, it.key)
          [] OTHER                        -> b

\* PgMonster.finalize
PgMonster_finalize(m) ==
    [m EXCEPT !.farmable = (Len(m.drop_dungeons) > 0),
              !.farmable_evo = (Len(m.drop_dungeons) > 0)]

\* item.finalize()
finalize(d, it) ==
    LET d1 == [d EXCEPT !.finalized = @ \cup {it}]
    IN  IF it.type = "PgMonster"
        THEN [d1 EXCEPT !.mon[it.key] = PgMonster_finalize(@)]
        ELSE d1

\* Mutant of first_loop_body: the item is finalized as soon as it is loaded.
first_loop_body_finalizing(d, it) == finalize(_ensure_loaded(d, it), it)

\* PgRawDatabase.__init__, line 236: the body of the first loop.
first_loop_body(d, it) == _ensure_loaded(d, it)

\* PgRawDatabase.__init__, line 240: the body of the second loop.
second_loop_body(d, it) == finalize(d, it)

RECURSIVE _recursive_add(_, _, _)
RECURSIVE AddEach(_, _, _)

\* MonsterGroup._recursive_add(m): m, then what each monster of m.evo_to adds,
\* in order.  A chain of calls deeper than the number of stored monsters has
\* met a monster twice and never ends: Python raises RecursionError, which
\* the member None stands for.
_recursive_add(mon, m, depth) ==
    IF depth > Cardinality(DOMAIN mon)
    THEN <<None>>
    ELSE <<m>> \o AddEach(mon, mon[m].evo_to, depth + 1)

AddEach(mon, ems, depth) ==
    IF ems = <<>>
    THEN <<>>
    ELSE _recursive_add(mon, Head(ems), depth) \o AddEach(mon, Tail(ems), depth)

\* Mutant of _initialize_members: the flags of the base monster alone are
\* handed to the members.
_initialize_members_base_only(mon, members) ==
    LET ms   == {members[i] : i \in 1..Len(members)}
        base == mon[members[1]]
    IN  [k \in DOMAIN mon |->
            IF k \in ms
            THEN [mon[k] EXCEPT !.farmable_evo = base.farmable,
                                !.pem_evo = base.in_pem,
                                !.rem_evo = base.in_rem,
                                !.mp_evo = base.in_mpshop]
            ELSE mon[k]]

\* MonsterGroup._initialize_members
_initialize_members(mon, members) ==
    LET ms           == {members[i] : i \in 1..Len(members)}
        farmable_evo == \E m \in ms : mon[m].farmable
        pem_evo      == \E m \in ms : mon[m].in_pem
        rem_evo      == \E m \in ms : mon[m].in_rem
        mp_evo       == \E m \in ms : mon[m].in_mpshop
    IN  [k \in DOMAIN mon |->
            IF k \in ms
            THEN [mon[k] EXCEPT !.farmable_evo = farmable_evo,
                                !.pem_evo = pem_evo,
                                !.rem_evo = rem_evo,
                                !.mp_evo = mp_evo]
            ELSE mon[k]]

\* MonsterGroup.__init__ and grouped_monsters.append
MonsterGroup(d, base_monster) ==
    LET members == _recursive_add(d.mon, base_monster, 1)
    IN  IF \E i \in 1..Len(members) : members[i] = None
        THEN Raise(d, "MonsterGroup._recursive_add: RecursionError")
        ELSE [d EXCEPT
                !.mon = _initialize_members(d.mon, members),
                !.grouped_monsters =
                    Append(@, [base_monster |-> base_monster,
                               members |-> members])]

\* PgRawDatabase.__init__, lines 213-232
PgRawDatabase_load(f) ==
    LET maps  == [t \in Types |-> _load(f, t)]
        items == AllItems(maps, Len(TypeOrder))
        nos   == {key("PgMonster", maps["PgMonster"][i]) :
                     i \in 1..Len(maps["PgMonster"])}
    IN  [pc |-> "ensure", pos |-> 1,
         maps |-> maps,
         all_pg_items |-> items,
         loaded |-> {},
         load_count |-> [it \in {items[i] : i \in 1..Len(items)} |-> 0],
         finalized |-> {},
         mon |-> [k \in nos |->
                    PgMonster(maps["PgMonster"][
                        CHOOSE i \in 1..Len(maps["PgMonster"]) :
                            key("PgMonster", maps["PgMonster"][i]) = k])],
         grouped_monsters |-> <<>>,
         monster_no_na_to_monster_no |-> <<>>,
         error |-> NoError]

\* PgRawDatabase.__init__, lines 251-252: a later monster replaces an earlier
\* one that has the same monster_no_na.
monster_no_na_to_monster_no(d) ==
    LET rows == d.maps["PgMonster"]
        nas  == {rows[i].MONSTER_NO_US : i \in 1..Len(rows)}
    IN  [na \in nas |->
            LET last == CHOOSE i \in 1..Len(rows) :
                           /\ rows[i].MONSTER_NO_US = na
                           /\ \A j \in 1..Len(rows) :
                                 rows[j].MONSTER_NO_US = na => j <= i
            IN  rows[last].MONSTER_NO]

\* Where __init__ stands after a step: an exception leaves the constructor,
\* a finished loop passes control to the next one.
Advance(d) ==
    LET a1 == IF d.pc = "ensure" /\ d.pos > Len(d.all_pg_items)
              THEN [d EXCEPT !.pc = "finalize", !.pos = 1] ELSE d
        a2 == IF a1.pc = "finalize" /\ a1.pos > Len(a1.all_pg_items)
              THEN [a1 EXCEPT !.pc = "group", !.pos = 1] ELSE a1
        a3 == IF a2.pc = "group" /\ a2.pos > Len(a2.maps["PgMonster"])
              THEN [a2 EXCEPT !.pc = "finish"] ELSE a2
    IN  IF d.error # NoError THEN [d EXCEPT !.pc = "raised"] ELSE a3

\* lines 216-232: every list file is read into its map.
PgRawDatabase_load_files ==
    /\ db.pc = "start"
    /\ db' = Advance(PgRawDatabase_load(files))
    /\ UNCHANGED <<files, cogvars, idxvars>>

\* lines 235-236: one pass of the first loop.
PgRawDatabase_ensure_loaded_pass ==
    /\ db.pc = "ensure"
    /\ db' = Advance([first_loop_body(db, db.all_pg_items[db.pos])
                        EXCEPT !.pos = @ + 1])
    /\ UNCHANGED <<files, cogvars, idxvars>>

\* lines 239-240: one pass of the second loop.
PgRawDatabase_finalize_pass ==
    /\ db.pc = "finalize"
    /\ db' = Advance([second_loop_body(db, db.all_pg_items[db.pos])
                        EXCEPT !.pos = @ + 1])
    /\ UNCHANGED <<files, cogvars, idxvars>>

\* lines 244-248: one pass of the grouping loop.
PgRawDatabase_group ==
    /\ db.pc = "group"
    /\ LET m == key("PgMonster", db.maps["PgMonster"][db.pos])
           d == IF db.mon[m].cur_evo_type # Base THEN db ELSE MonsterGroup(db, m)
       IN  db' = Advance([d EXCEPT !.pos = @ + 1])
    /\ UNCHANGED <<files, cogvars, idxvars>>

\* lines 251-252, and the constructor returns.
PgRawDatabase_finish ==
    /\ db.pc = "finish"
    /\ db' = [db EXCEPT !.pc = "done",
                        !.monster_no_na_to_monster_no =
                            monster_no_na_to_monster_no(db)]
    /\ UNCHANGED <<files, cogvars, idxvars>>

NextDb ==
    \/ PgRawDatabase_load_files
    \/ PgRawDatabase_ensure_loaded_pass
    \/ PgRawDatabase_finalize_pass
    \/ PgRawDatabase_group
    \/ PgRawDatabase_finish

(***************************************************************************)
(* The datasets SpecDb starts from.  Every monster has its info and price  *)
(* row; the evolutions lead from a lower to a higher monster number, so a  *)
(* monster can have several targets and several sources; one acquisition   *)
(* kind at a time is set for a chosen set of monsters.                     *)
(***************************************************************************)

MonsterNos == 1..MaxMonsters

\* A DROP_NO that names no stored monster.
MissingMonsterNo == MaxMonsters + 1

MonsterRow(i) ==
    [MONSTER_NO |-> i, MONSTER_NO_US |-> i, RARITY |-> 5,
     HP_MAX |-> 10, ATK_MAX |-> 5, RCV_MAX |-> 3,
     TS_SEQ_SKILL |-> None, TS_SEQ_LEADER |-> None]

InfoRow(i, pem, rem) ==
    [MONSTER_NO |-> i, ON_US |-> "1", TSR_SEQ |-> 1,
     PAL_EGG |-> IF pem THEN "1" ELSE "0",
     RARE_EGG |-> IF rem THEN "1" ELSE "0"]

PriceRow(i, buy) == [MONSTER_NO |-> i, BUY_PRICE |-> buy, SELL_PRICE |-> 100]

\* One dungeonMonsterList row per drop monster of S; the row that drops
\* monster 1 names a dungeon that is not stored.
DungeonMonsterRows(S) ==
    SelectSeq([i \in 1..MissingMonsterNo |->
                  [TDM_SEQ |-> i, DROP_NO |-> i, MONSTER_NO |-> i,
                   DUNGEON_SEQ |-> IF i = 1 THEN 2 ELSE 1]],
              LAMBDA row : row.DROP_NO \in S)

\* The evolutions a dataset may hold: <<from, to>> with from < to.
ForwardEdges == {e \in MonsterNos \X MonsterNos : e[1] < e[2]}

\* evolutionList rows of the edge set E, ordered by source then target.
EvolutionRows(E) ==
    SelectSeq([n \in 1..(MaxMonsters * MaxMonsters) |->
                  [TV_SEQ |-> n,
                   MONSTER_NO |-> ((n - 1) \div MaxMonsters) + 1,
                   TO_NO |-> ((n - 1) % MaxMonsters) + 1,
                   TV_TYPE |-> Evo]],
              LAMBDA row : <<row.MONSTER_NO, row.TO_NO>> \in E)

AcquisitionKinds == {"farmable", "pem", "rem", "mp"}

DbFilesOf(kind, S, E) ==
    [PgAwakening      |-> <<>>,
     PgDungeon        |-> <<[DUNGEON_SEQ |-> 1]>>,
     PgDungeonMonster |-> IF kind = "farmable" THEN DungeonMonsterRows(S) ELSE <<>>,
     PgEvolution      |-> EvolutionRows(E),
     PgEvolutionMaterial |-> <<>>,
     PgMonster        |-> [i \in MonsterNos |-> MonsterRow(i)],
     PgMonsterAddInfo |-> <<>>,
     PgMonsterInfo    |-> [i \in MonsterNos |->
                             InfoRow(i, kind = "pem" /\ i \in S,
                                        kind = "rem" /\ i \in S)],
     PgMonsterPrice   |-> [i \in MonsterNos |->
                             PriceRow(i, IF kind = "mp" /\ i \in S THEN 5 ELSE 0)],
     PgSeries         |-> <<[TSR_SEQ |-> 1, DEL_YN |-> "N"]>>,
     PgSkill          |-> <<>>,
     PgSkillRotation  |-> <<>>,
     PgSkillRotationDated |-> <<>>]

DbFiles ==
    {DbFilesOf(kind, S, E) :
        kind \in AcquisitionKinds,
        S \in SUBSET (MonsterNos \cup {MissingMonsterNo}),
        E \in {E \in SUBSET ForwardEdges : Cardinality(E) <= MaxEvolutions}}

(***************************************************************************)
(* Datasets with irregular rows.  The regular part is three monsters, one  *)
(* series, one skill and the evolution 1 -> 2; each irregularity adds or   *)
(* removes the rows named below, and a dataset has at most MaxIrregular of *)
(* them.                                                                   *)
(***************************************************************************)

MaxIrregular == 2

\* TV_SEQ of the evolutionList row EvolutionRows makes for from -> to.
EvoSeq(from, to) == (from - 1) * MaxMonsters + to

\* TV_SEQs no row of EvolutionRows has.
OtherEvoSeq(n) == MaxMonsters * MaxMonsters + n

\* A TS_SEQ that names no stored skill.
MissingSkillNo == 9

Irregularities ==
    {"awakening", "awakening_no_monster", "awakening_no_skill",
     "awakening_deleted", "evolution_no_source", "evolution_no_target",
     "evolution_deleted", "material", "material_no_fodder",
     "material_of_deleted", "no_info", "no_price", "series_deleted",
     "rotation", "rotation_kr"}

AwakeningRows(F) ==
    SelectSeq(
        <<[has |-> "awakening", TMA_SEQ |-> 1, MONSTER_NO |-> 1,
           TS_SEQ |-> 1, DEL_YN |-> "N"],
          [has |-> "awakening_no_monster", TMA_SEQ |-> 2,
           MONSTER_NO |-> MissingMonsterNo, TS_SEQ |-> 1, DEL_YN |-> "N"],
          [has |-> "awakening_no_skill", TMA_SEQ |-> 3, MONSTER_NO |-> 1,
           TS_SEQ |-> MissingSkillNo, DEL_YN |-> "N"],
          [has |-> "awakening_deleted", TMA_SEQ |-> 4, MONSTER_NO |-> 1,
           TS_SEQ |-> 1, DEL_YN |-> "Y"]>>,
        LAMBDA row : row.has \in F)

IrregularEvolutionRows(F) ==
    SelectSeq(
        <<[has |-> "evolution_no_source", TV_SEQ |-> OtherEvoSeq(1),
           MONSTER_NO |-> MissingMonsterNo, TO_NO |-> 3, TV_TYPE |-> Evo],
          [has |-> "evolution_no_target", TV_SEQ |-> OtherEvoSeq(2),
           MONSTER_NO |-> 2, TO_NO |-> MissingMonsterNo, TV_TYPE |-> Evo],
          [has |-> "evolution_deleted", TV_SEQ |-> OtherEvoSeq(3),
           MONSTER_NO |-> 0, TO_NO |-> 3, TV_TYPE |-> Evo],
          [has |-> "evolution_deleted", TV_SEQ |-> OtherEvoSeq(4),
           MONSTER_NO |-> 2, TO_NO |-> 0, TV_TYPE |-> Evo]>>,
        LAMBDA row : row.has \in F)

EvolutionMaterialRows(F) ==
    SelectSeq(
        <<[has |-> "material", TEM_SEQ |-> 1, TV_SEQ |-> EvoSeq(1, 2),
           MONSTER_NO |-> 3],
          [has |-> "material_no_fodder", TEM_SEQ |-> 2,
           TV_SEQ |-> EvoSeq(1, 2), MONSTER_NO |-> MissingMonsterNo],
          [has |-> "material_of_deleted", TEM_SEQ |-> 3,
           TV_SEQ |-> OtherEvoSeq(3), MONSTER_NO |-> 3]>>,
        LAMBDA row : row.has \in F)

SkillRotationRows(F) ==
    SelectSeq(
        <<[has |-> "rotation", TSR_SEQ |-> 1, MONSTER_NO |-> 1,
           SERVER |-> "JP"],
          [has |-> "rotation_kr", TSR_SEQ |-> 2, MONSTER_NO |-> 2,
           SERVER |-> "KR"]>>,
        LAMBDA row : row.has \in F)

SkillRotationDatedRows(F) ==
    SelectSeq(
        <<[has |-> "rotation", TSRL_SEQ |-> 1, TSR_SEQ |-> 1, TS_SEQ |-> 1],
          [has |-> "rotation_kr", TSRL_SEQ |-> 2, TSR_SEQ |-> 2,
           TS_SEQ |-> 1]>>,
        LAMBDA row : row.has \in F)

IrregularDbFilesOf(F) ==
    [DbFilesOf("pem", {1}, {<<1, 2>>}) EXCEPT
        !.PgAwakening = AwakeningRows(F),
        !.PgEvolution = @ \o IrregularEvolutionRows(F),
        !.PgEvolutionMaterial = EvolutionMaterialRows(F),
        !.PgMonsterInfo =
            SelectSeq(@, LAMBDA row : ~(row.MONSTER_NO = 3 /\ "no_info" \in F)),
        !.PgMonsterPrice =
            SelectSeq(@, LAMBDA row : ~(row.MONSTER_NO = 3 /\ "no_price" \in F)),
        !.PgSeries =
            <<[TSR_SEQ |-> 1,
               DEL_YN |-> IF "series_deleted" \in F THEN "Y" ELSE "N"]>>,
        !.PgSkill = <<[TS_SEQ |-> 1]>>,
        !.PgSkillRotation = SkillRotationRows(F),
        !.PgSkillRotationDated = SkillRotationDatedRows(F)]

IrregularDbFiles ==
    {IrregularDbFilesOf(F) :
        F \in {F \in SUBSET Irregularities : Cardinality(F) <= MaxIrregular}}

(***************************************************************************)
(* Datasets of one monster, with every HP_MAX, ATK_MAX and RCV_MAX up to   *)
(* the bounds: each remainder of the three divisions occurs.               *)
(***************************************************************************)

MaxHp == 10
MaxAtk == 5
MaxRcv == 3

StatsDbFilesOf(hp, atk, rcv) ==
    [DbFilesOf("pem", {}, {}) EXCEPT
        !.PgDungeon = <<>>,
        !.PgMonster = <<[MonsterRow(1) EXCEPT !.HP_MAX = hp, !.ATK_MAX = atk,
                                              !.RCV_MAX = rcv]>>,
        !.PgMonsterInfo = <<InfoRow(1, FALSE, FALSE)>>,
        !.PgMonsterPrice = <<PriceRow(1, 0)>>]

StatsDbFiles ==
    {StatsDbFilesOf(hp, atk, rcv) :
        hp \in 0..MaxHp, atk \in 0..MaxAtk, rcv \in 0..MaxRcv}

(***************************************************************************)
(* Datasets of evolution records of any shape: from any monster to any     *)
(* other, of type Evo or of type Base (TV_TYPE -1), several to one monster *)
(* and back again.                                                         *)
(***************************************************************************)

MaxEvolutionRecords == 3

\* The TV_SEQs of the records: those of the records of type Evo, then those
\* of the records of type Base.
EvolutionRecords ==
    {n \in 1..(2 * MaxMonsters * MaxMonsters) :
        ((n - 1) % (MaxMonsters * MaxMonsters)) \div MaxMonsters # (n - 1) % MaxMonsters}

AnyEvolutionRows(R) ==
    SelectSeq([n \in 1..(2 * MaxMonsters * MaxMonsters) |->
                  [TV_SEQ |-> n,
                   MONSTER_NO |->
                       (((n - 1) % (MaxMonsters * MaxMonsters)) \div MaxMonsters) + 1,
                   TO_NO |-> ((n - 1) % MaxMonsters) + 1,
                   TV_TYPE |-> IF n > MaxMonsters * MaxMonsters THEN Base ELSE Evo]],
              LAMBDA row : row.TV_SEQ \in R)

EvolutionDbFilesOf(R) ==
    [DbFilesOf("pem", {}, {}) EXCEPT !.PgEvolution = AnyEvolutionRows(R)]

EvolutionDbFiles ==
    {EvolutionDbFilesOf(R) :
        R \in {R \in SUBSET EvolutionRecords : Cardinality(R) <= MaxEvolutionRecords}}

(***************************************************************************)
(* Datasets of one monster with what is_inheritable reads: its rarity, its *)
(* sell price, its awakenings and the assist setting of its add-info       *)
(* record, if it has one.                                                  *)
(***************************************************************************)

MaxAwakenings == 2

\* EXTRA_VAL1 of the add-info record; None stands for no record at all.
AssistSettings == {None, 0, 1, 2}

InheritableDbFilesOf(rarity, sell, n, assist) ==
    [DbFilesOf("pem", {}, {}) EXCEPT
        !.PgAwakening = [i \in 1..n |->
                            [TMA_SEQ |-> i, MONSTER_NO |-> 1, TS_SEQ |-> 1,
                             DEL_YN |-> "N"]],
        !.PgDungeon = <<>>,
        !.PgMonster = <<[MonsterRow(1) EXCEPT !.RARITY = rarity]>>,
        !.PgMonsterAddInfo =
            IF assist = None THEN <<>>
            ELSE <<[MONSTER_NO |-> 1, EXTRA_VAL1 |-> assist]>>,
        !.PgMonsterInfo = <<InfoRow(1, FALSE, FALSE)>>,
        !.PgMonsterPrice = <<[PriceRow(1, 0) EXCEPT !.SELL_PRICE = sell]>>,
        !.PgSkill = <<[TS_SEQ |-> 1]>>]

InheritableDbFiles ==
    {InheritableDbFilesOf(rarity, sell, n, assist) :
        rarity \in {4, 5}, sell \in {3000, 3001}, n \in 0..MaxAwakenings,
        assist \in AssistSettings}

InitDb ==
    /\ files \in DbFiles \cup IrregularDbFiles \cup StatsDbFiles
                  \cup EvolutionDbFiles \cup InheritableDbFiles
    /\ db = [pc |-> "start"]
    /\ cog = Idle /\ task = Idle /\ attempt = Idle /\ observed = Idle
    /\ data = Idle /\ index = Idle /\ result = Idle

SpecDb == InitDb /\ [][NextDb]_vars

(***************************************************************************)
(*                    MonsterIndex (one index generation)                  *)
(*                                                                         *)
(* The database MonsterIndex reads is [mon, grouped_monsters]: mon maps a  *)
(* monster_no to the PgMonster fields the index reads, grouped_monsters is *)
(* the list of MonsterGroups, each [base_monster, members] by monster_no.  *)
(* A NamedMonster is an object: the index refers to it by its position in  *)
(* all_monsters.                                                           *)
(***************************************************************************)

Fire == 1
Water == 2
Wood == 3
Light == 4
Dark == 5

\* sorted(seq, key=...) and list.sort(key=...): stable. less(a, b) is
\* key(a) < key(b).
sorted(seq, less(_, _)) ==
    LET n == Len(seq)
        rank(i) == 1 + Cardinality({j \in 1..n :
                        \/ less(seq[j], seq[i])
                        \/ ~less(seq[i], seq[j]) /\ j < i})
    IN  [r \in 1..n |-> seq[CHOOSE i \in 1..n : rank(i) = r]]

\* NamedMonsterGroup._compute_monster_basename
_compute_monster_basename(m) ==
    LET \* 'xxx, the yyy' keeps xxx; otherwise the chunk after the last comma
        chunk(name, name_parts) ==
            IF InSeq(name, ",")
            THEN IF startswith(strip(name_parts[2]), <<"t", "h", "e", " ">>)
                 THEN name_parts[1]
                 ELSE name_parts[Len(name_parts)]
            ELSE name
        without(basename, x) ==
            IF startswith(basename, x) THEN replace(basename, x, <<>>) ELSE basename
        of_name(name) ==
            strip(without(without(chunk(name, split(name, ",")),
                                  <<"a", "w", "o", "k", "e", "n">>),
                          <<"r", "e", "i", "n", "c", "a", "r", "n", "a", "t", "e", "d">>))
    IN  of_name(lower(m.name_na))

\* NamedMonsterGroup._compute_group_basename: the most frequent basename,
\* the first in sorted order among the most frequent.
_compute_group_basename(monsters, monster_no_to_basename) ==
    LET get_basename(x) == monster_no_to_basename[x.monster_no]
        basenames(sorted_monsters) ==
            [i \in 1..Len(sorted_monsters) |-> get_basename(sorted_monsters[i])]
        \* itertools.groupby: a run starts where the key changes;
        \* max(grouped, key=itemgetter(1)): the first of the largest
        best_tuple(name) ==
            LET n        == Len(name)
                starts   == {i \in 1..n : i = 1 \/ name[i] # name[i - 1]}
                count(i) == Cardinality({j \in i..n : \A k \in i..j : name[k] = name[i]})
            IN  name[CHOOSE i \in starts :
                        \A j \in starts :
                            count(j) < count(i) \/ (count(j) = count(i) /\ i <= j)]
    IN  best_tuple(basenames(
            sorted(monsters, LAMBDA a, b : str_less(get_basename(a), get_basename(b)))))

\* NamedMonsterGroup.__init__
NamedMonsterGroup(mon, monster_group, basename_overrides) ==
    LET group(monsters, monster_no_to_basename, computed_basename, computed_basenames) ==
            [base_monster           |-> mon[monster_group.base_monster],
             monsters               |-> monsters,
             group_size             |-> Len(monsters),
             monster_no_to_basename |-> monster_no_to_basename,
             computed_basename      |-> computed_basename,
             computed_basenames     |-> computed_basenames,
             basenames              |-> IF basename_overrides # {}
                                        THEN basename_overrides
                                        ELSE computed_basenames]
        with_computed_basename(monsters, monster_no_to_basename, computed_basename) ==
            group(monsters, monster_no_to_basename, computed_basename,
                  {computed_basename} \cup
                  (IF InSeq(computed_basename, "-")
                   THEN {replace(computed_basename, <<"-">>, <<" ">>)} ELSE {}))
        with_basenames(monsters, monster_no_to_basename) ==
            with_computed_basename(
                monsters, monster_no_to_basename,
                _compute_group_basename(monsters, monster_no_to_basename))
        with_monsters(monsters) ==
            with_basenames(
                monsters,
                [no \in {monsters[i].monster_no : i \in 1..Len(monsters)} |->
                    _compute_monster_basename(mon[no])])
    IN  with_monsters([i \in 1..Len(monster_group.members) |->
                          mon[monster_group.members[i]]])

lp_types == {<<"e", "v", "o", "l", "v", "e">>, <<"e", "n", "h", "a", "n", "c", "e">>, <<"p", "r", "o", "t", "e", "c", "t", "e", "d">>, <<"a", "w", "o", "k", "e", "n">>, <<"v", "e", "n", "d", "o", "r">>}
lp_substrings == {<<"t", "a", "m", "a", "d", "r", "a">>}
lp_min_rarity == 2
lp_grp_min_rarity == 5

\* NamedMonsterGroup._is_low_priority_monster
_is_low_priority_monster(m) ==
    LET name          == lower(m.name_na)
        failed_type   == lower(m.type1) \in lp_types
        failed_ss     == \E x \in lp_substrings : contains(name, x)
        failed_rarity == m.rarity < lp_min_rarity
        failed_chibi  == name = m.name_na
    IN  failed_type \/ failed_ss \/ failed_rarity \/ failed_chibi

\* NamedMonsterGroup._is_low_priority_group
_is_low_priority_group(members) ==
    LET max_rarity == CHOOSE r \in {members[i].rarity : i \in 1..Len(members)} :
                          \A i \in 1..Len(members) : members[i].rarity <= r
    IN  max_rarity < lp_grp_min_rarity

\* Mutant of is_low_priority: the base monster alone is looked at.
is_low_priority_of_base(named_mg) ==
    _is_low_priority_monster(named_mg.base_monster)

\* NamedMonsterGroup.is_low_priority
is_low_priority(named_mg) ==
    _is_low_priority_monster(named_mg.base_monster)
        \/ _is_low_priority_group(named_mg.monsters)

\* MonsterIndex.__init__, lines 1628-1651
attr_short_prefix_map ==
    [a \in Fire..Dark |->
        CASE a = Fire  -> {<<"r">>}
          [] a = Water -> {<<"b">>}
          [] a = Wood  -> {<<"g">>}
          [] a = Light -> {<<"l">>}
          [] a = Dark  -> {<<"d">>}]

attr_long_prefix_map ==
    [a \in Fire..Dark |->
        CASE a = Fire  -> {<<"r", "e", "d">>, <<"f", "i", "r", "e">>}
          [] a = Water -> {<<"b", "l", "u", "e">>, <<"w", "a", "t", "e", "r">>}
          [] a = Wood  -> {<<"g", "r", "e", "e", "n">>, <<"w", "o", "o", "d">>}
          [] a = Light -> {<<"l", "i", "g", "h", "t">>}
          [] a = Dark  -> {<<"d", "a", "r", "k">>}]

series_to_prefix_map ==
    [s \in {130, 136, 125, 114, 139, 149, 154} |->
        CASE s = 130 -> {<<"h", "a", "l", "l", "o", "w", "e", "e", "n">>}
          [] s = 136 -> {<<"x", "m", "a", "s">>, <<"c", "h", "r", "i", "s", "t", "m", "a", "s">>}
          [] s = 125 -> {<<"s", "u", "m", "m", "e", "r">>, <<"b", "e", "a", "c", "h">>}
          [] s = 114 -> {<<"s", "c", "h", "o", "o", "l">>, <<"a", "c", "a", "d", "e", "m", "y">>, <<"g", "a", "k", "u", "e", "n">>}
          [] s = 139 -> {<<"n", "e", "w", " ", "y", "e", "a", "r", "s">>, <<"n", "y">>}
          [] s = 149 -> {<<"w", "e", "d", "d", "i", "n", "g">>, <<"b", "r", "i", "d", "e">>}
          [] s = 154 -> {<<"p", "a", "d", "r">>}]

\* Prefixes that name the second attribute like the first.
compute_prefixes_naming_both(m) ==
    attr_short_prefix_map[m.attr1] \cup attr_long_prefix_map[m.attr1]
        \cup (IF m.attr2 # None
              THEN attr_short_prefix_map[m.attr2] \cup attr_long_prefix_map[m.attr2]
                       \cup UNION {{a1 \o a2, a1 \o <<"/">> \o a2} :
                                   <<a1, a2>> \in attr_short_prefix_map[m.attr1]
                                                    \X attr_short_prefix_map[m.attr2]}
              ELSE {})

\* MonsterIndex.compute_prefixes
compute_prefixes(m) ==
    LET attr1_short_prefixes == attr_short_prefix_map[m.attr1]
        attr1_long_prefixes  == attr_long_prefix_map[m.attr1]
        attr2_prefixes ==
            IF m.attr2 # None
            THEN UNION {{a1 \o a2, a1 \o <<"/">> \o a2} :
                        <<a1, a2>> \in attr1_short_prefixes
                                         \X attr_short_prefix_map[m.attr2]}
            ELSE {}
        chibi ==
            IF m.name_na # m.name_jp
            THEN IF lower(m.name_na) = m.name_na THEN {<<"c", "h", "i", "b", "i">>} ELSE {}
            ELSE IF contains(m.name_jp, <<"mi", "ni">>) THEN {<<"c", "h", "i", "b", "i">>} ELSE {}
        lower_name == lower(m.name_na)
        awoken == startswith(lower_name, <<"a", "w", "o", "k", "e", "n">>)
                      \/ contains(lower_name, <<"kaku", "sei">>)
        revo   == startswith(lower_name, <<"r", "e", "i", "n", "c", "a", "r", "n", "a", "t", "e", "d">>)
                      \/ contains(lower_name, <<"ten", "shou">>)
        awoken_or_revo == awoken \/ revo
        evo_type ==
            IF m.cur_evo_type = Base THEN {<<"b", "a", "s", "e">>}
            ELSE IF m.cur_evo_type = Evo THEN {<<"e", "v", "o">>}
            ELSE IF m.cur_evo_type = UvoAwoken /\ ~awoken_or_revo
            THEN {<<"u", "v", "o">>, <<"u", "e", "v", "o">>}
            ELSE IF m.cur_evo_type = UuvoReincarnated /\ ~awoken_or_revo
            THEN {<<"u", "u", "v", "o">>, <<"u", "u", "e", "v", "o">>}
            ELSE {}
        collab == IF m.tsr_seq \in DOMAIN series_to_prefix_map
                  THEN series_to_prefix_map[m.tsr_seq] ELSE {}
    IN  attr1_short_prefixes \cup attr1_long_prefixes \cup attr2_prefixes
            \cup chibi
            \cup (IF awoken THEN {<<"a">>, <<"a", "w", "o", "k", "e", "n">>} ELSE {})
            \cup (IF revo THEN {<<"r", "e", "v", "o">>, <<"r", "e", "i", "n", "c", "a", "r", "n", "a", "t", "e", "d">>} ELSE {})
            \cup evo_type \cup collab

\* The nicknames NamedMonster.__init__ makes of a set of basenames: each
\* basename, and each prefix before it with and without a space.
nicknames_of(basenames, prefixes) ==
    basenames \cup UNION {{prefix \o basename, prefix \o <<" ">> \o basename} :
                          <<prefix, basename>> \in prefixes \X basenames}

\* NamedMonster.__init__, lines 1913-1932: the attributes copied from the
\* monster and from its group
NamedMonster_copied(monster, monster_group, prefixes, extra_nicknames) ==
    [monster_no              |-> monster.monster_no,
     monster_no_na           |-> monster.monster_no_na,
     group_basenames         |-> monster_group.basenames,
     prefixes                |-> prefixes,
     is_low_priority         |-> is_low_priority(monster_group),
     group_size              |-> monster_group.group_size,
     rarity                  |-> monster.rarity,
     name_na                 |-> monster.name_na,
     name_jp                 |-> monster.name_jp,
     monster_basename        |->
         monster_group.monster_no_to_basename[monster.monster_no],
     group_computed_basename |-> monster_group.computed_basename,
     extra_nicknames         |-> extra_nicknames]

\* NamedMonster.__init__, lines 1934-1965: the nicknames
NamedMonster_nicknames(monster, monster_group, prefixes, extra_nicknames) ==
    LET group_basenames == monster_group.basenames
        two_word_basenames ==
            {split(basename, " ")[2] :
                basename \in {b \in group_basenames : Len(split(b, " ")) = 2}}
    IN  [two_word_basenames      |-> two_word_basenames,
         final_nicknames         |->
             extra_nicknames
                 \cup (IF monster.roma_subname # <<>>
                       THEN {monster.roma_subname} ELSE {})
                 \cup nicknames_of(group_basenames, prefixes),
         final_two_word_nicknames |->
             nicknames_of(two_word_basenames, prefixes)]

\* A NamedMonster that holds on to its monster and its group.
NamedMonster_holding_on(monster, monster_group, prefixes, extra_nicknames) ==
    [monster |-> monster, monster_group |-> monster_group]
        @@ NamedMonster_copied(monster, monster_group, prefixes, extra_nicknames)
        @@ NamedMonster_nicknames(monster, monster_group, prefixes, extra_nicknames)

\* NamedMonster.__init__: the attributes of the object
NamedMonster(monster, monster_group, prefixes, extra_nicknames) ==
    NamedMonster_copied(monster, monster_group, prefixes, extra_nicknames)
        @@ NamedMonster_nicknames(monster, monster_group, prefixes, extra_nicknames)

\* A sort by alias id alone.
named_monsters_sort_by_id_less(a, b) == a.monster_no_na < b.monster_no_na

\* named_monsters_sort(a) < named_monsters_sort(b), lines 1674-1675
named_monsters_sort_less(a, b) ==
    LET ka == <<IF a.is_low_priority THEN 0 ELSE 1, a.group_size, a.monster_no_na>>
        kb == <<IF b.is_low_priority THEN 0 ELSE 1, b.group_size, b.monster_no_na>>
    IN  \E i \in 1..3 : ka[i] < kb[i] /\ \A j \in 1..(i - 1) : ka[j] = kb[j]

\* The dict after "for nm in named_monsters[:k]: for nickname in
\* nm.final_nicknames: all_entries[nickname] = nm", lines 1680-1682
RECURSIVE insert_final_nicknames(_, _)
insert_final_nicknames(named_monsters, k) ==
    IF k = 0 THEN <<>>
    ELSE [nickname \in named_monsters[k].final_nicknames |-> k]
             @@ insert_final_nicknames(named_monsters, k - 1)

\* Likewise for final_two_word_nicknames, lines 1683-1684
RECURSIVE insert_final_two_word_nicknames(_, _)
insert_final_two_word_nicknames(named_monsters, k) ==
    IF k = 0 THEN <<>>
    ELSE [nickname \in named_monsters[k].final_two_word_nicknames |-> k]
             @@ insert_final_two_word_nicknames(named_monsters, k - 1)

\* {key(m): m for m in named_monsters}: the last monster of a key stays
dict_by(named_monsters, key_of(_)) ==
    LET n == Len(named_monsters)
    IN  [k \in {key_of(named_monsters[i]) : i \in 1..n} |->
            CHOOSE i \in 1..n :
                /\ key_of(named_monsters[i]) = k
                /\ \A j \in (i + 1)..n : key_of(named_monsters[j]) # k]

\* The NamedMonsters of one group, lines 1659-1667
named_monsters_of(mon, mg, nickname_overrides, basename_overrides) ==
    LET no_na == mon[mg.base_monster].monster_no_na
        group_basename_overrides ==
            IF no_na \in DOMAIN basename_overrides
            THEN basename_overrides[no_na] ELSE {}
        monster_no_na_to_nicknames(monster_no_na) ==
            {nickname \in DOMAIN nickname_overrides :
                nickname_overrides[nickname] = monster_no_na}
        of_group(named_mg) ==
            [i \in 1..named_mg.group_size |->
                NamedMonster(named_mg.monsters[i], named_mg,
                             compute_prefixes(named_mg.monsters[i]),
                             monster_no_na_to_nicknames(
                                 named_mg.monsters[i].monster_no_na))]
    IN  of_group(NamedMonsterGroup(mon, mg, group_basename_overrides))

RECURSIVE named_monsters_upto(_, _, _, _)
named_monsters_upto(database, g, nickname_overrides, basename_overrides) ==
    IF g = 0 THEN <<>>
    ELSE named_monsters_upto(database, g - 1, nickname_overrides, basename_overrides)
             \o named_monsters_of(database.mon, database.grouped_monsters[g],
                                  nickname_overrides, basename_overrides)

\* An index that leaves the entries as the sorted insertion made them.
overrides_not_applied(all_entries, nickname_overrides, monster_no_na_to_named_monster) ==
    all_entries

\* lines 1691-1694: the overrides whose monster is in the index take their
\* nicknames
apply_overrides(all_entries, nickname_overrides, monster_no_na_to_named_monster) ==
    [nickname \in {n \in DOMAIN nickname_overrides :
                      nickname_overrides[n] \in DOMAIN monster_no_na_to_named_monster} |->
        monster_no_na_to_named_monster[nickname_overrides[nickname]]]
        @@ all_entries

\* MonsterIndex.__init__
MonsterIndex(database, nickname_overrides, basename_overrides) ==
    LET self(named_monsters, monster_no_na_to_named_monster) ==
            [all_entries |->
                 apply_overrides(
                     insert_final_nicknames(named_monsters, Len(named_monsters)),
                     nickname_overrides, monster_no_na_to_named_monster),
             two_word_entries |->
                 insert_final_two_word_nicknames(named_monsters, Len(named_monsters)),
             all_monsters |-> named_monsters,
             all_na_name_to_monsters |->
                 dict_by(named_monsters, LAMBDA m : lower(m.name_na)),
             monster_no_na_to_named_monster |-> monster_no_na_to_named_monster,
             monster_no_to_named_monster |->
                 dict_by(named_monsters, LAMBDA m : m.monster_no)]
        of_sorted(named_monsters) ==
            self(named_monsters, dict_by(named_monsters, LAMBDA m : m.monster_no_na))
    IN  of_sorted(sorted(named_monsters_upto(database, Len(database.grouped_monsters),
                                             nickname_overrides, basename_overrides),
                         named_monsters_sort_less))

(***************************************************************************)
(*                 difflib.get_close_matches (the library)                 *)
(***************************************************************************)

\* The length of the longest common run of a from i and b from j (0-based,
\* below ahi and bhi).
RECURSIVE common_run(_, _, _, _, _, _)
common_run(a, i, ahi, b, j, bhi) ==
    IF i < ahi /\ j < bhi /\ a[i + 1] = b[j + 1]
    THEN 1 + common_run(a, i + 1, ahi, b, j + 1, bhi)
    ELSE 0

\* SequenceMatcher.find_longest_match: <<i, j, k>>, the longest block, of
\* those the one earliest in a, of those the one earliest in b.
find_longest_match(a, alo, ahi, b, blo, bhi) ==
    LET first(set) == CHOOSE x \in set : \A y \in set : x <= y
        at(run, i, k) ==
            <<i, first({p[2] : p \in {r \in DOMAIN run : run[r] = k /\ r[1] = i}}), k>>
        longest(run, k) ==
            IF k = 0 THEN <<alo, blo, 0>>
            ELSE at(run, first({p[1] : p \in {r \in DOMAIN run : run[r] = k}}), k)
        largest(run, sizes) ==
            IF sizes = {} THEN <<alo, blo, 0>>
            ELSE longest(run, CHOOSE x \in sizes : \A y \in sizes : y <= x)
        of_runs(run) == largest(run, {run[p] : p \in DOMAIN run})
    IN  of_runs([p \in (alo..(ahi - 1)) \X (blo..(bhi - 1)) |->
                    common_run(a, p[1], ahi, b, p[2], bhi)])

\* The total size of SequenceMatcher.get_matching_blocks
RECURSIVE matching_blocks_size(_, _, _, _, _, _)
matching_blocks_size(a, alo, ahi, b, blo, bhi) ==
    LET around(i, j, k) ==
            IF k = 0 THEN 0
            ELSE k + (IF alo < i /\ blo < j
                      THEN matching_blocks_size(a, alo, i, b, blo, j) ELSE 0)
                   + (IF i + k < ahi /\ j + k < bhi
                      THEN matching_blocks_size(a, i + k, ahi, b, j + k, bhi) ELSE 0)
        of_match(x) == around(x[1], x[2], x[3])
    IN  of_match(find_longest_match(a, alo, ahi, b, blo, bhi))

\* difflib._calculate_ratio as a fraction <<numerator, denominator>>
_calculate_ratio(matches, length) ==
    IF length > 0 THEN <<2 * matches, length>> ELSE <<1, 1>>

\* SequenceMatcher.ratio
ratio(a, b) ==
    _calculate_ratio(matching_blocks_size(a, 0, Len(a), b, 0, Len(b)),
                     Len(a) + Len(b))

\* SequenceMatcher.quick_ratio: the characters in common, as multisets
quick_ratio(a, b) ==
    LET count(s, c) == Cardinality({i \in 1..Len(s) : s[i] = c})
        min(x, y)   == IF x < y THEN x ELSE y
        RECURSIVE sum(_)
        sum(cs) == IF cs = {} THEN 0
                   ELSE LET c == CHOOSE c \in cs : TRUE
                        IN  min(count(a, c), count(b, c)) + sum(cs \ {c})
    IN  _calculate_ratio(sum({a[i] : i \in 1..Len(a)}), Len(a) + Len(b))

\* SequenceMatcher.real_quick_ratio
real_quick_ratio(a, b) ==
    _calculate_ratio(IF Len(a) < Len(b) THEN Len(a) ELSE Len(b), Len(a) + Len(b))

\* r >= cutoff and r > s for fractions
at_least(r, cutoff) == r[1] * cutoff[2] >= cutoff[1] * r[2]
greater(r, s) == r[1] * s[2] > s[1] * r[2]

\* difflib.get_close_matches(word, possibilities, n=1, cutoff): the list
\* of at most one possibility, the largest (ratio, possibility) of those
\* whose ratio reaches the cutoff.
get_close_matches(word, possibilities, cutoff) ==
    LET best(close, score) ==
            IF close = {} THEN <<>>
            ELSE <<CHOOSE x \in close :
                       \A y \in close \ {x} :
                           \/ greater(score[x], score[y])
                           \/ ~greater(score[y], score[x]) /\ str_less(y, x)>>
        scored(score) ==
            best({x \in DOMAIN score : at_least(score[x], cutoff)}, score)
        of_quick(quick) == scored([x \in quick |-> ratio(x, word)])
    IN  of_quick({x \in possibilities :
                     /\ at_least(real_quick_ratio(x, word), cutoff)
                     /\ at_least(quick_ratio(x, word), cutoff)})

(***************************************************************************)
(*                       MonsterIndex.find_monster                         *)
(*                                                                         *)
(* What a call does is [raised, value]: raised names the exception, or is  *)
(* NoError and value is the returned triple <<m, err, debug_info>>.  None  *)
(* is Absent; a value that is present is a one-element sequence.  A set of *)
(* NamedMonsters (held by position) iterates as a list in some order:      *)
(* NamedMonster defines no __hash__, so the order follows the addresses of *)
(* the objects.  A stage that returns pickBestMonster of its matches is    *)
(* written as Picks: the matches and the text of the label, from which     *)
(* find_monster makes the returned triple once the list in which the       *)
(* matches iterate is known.                                               *)
(***************************************************************************)

Absent == <<>>
Returns(m, err, debug_info) == [raised |-> NoError, value |-> <<m, err, debug_info>>]
Raises(exception) == [raised |-> exception, value |-> <<>>]
Picks(matches, text, with_names) ==
    [raised |-> NoError, picks |-> matches, text |-> text, with_names |-> with_names]

\* A returned string: its fixed text and the values formatted into it.
Text(text) == <<[text |-> text, max_of |-> None, matches |-> <<>>, query |-> <<>>]>>
MaxOf(text, n) == <<[text |-> text, max_of |-> n, matches |-> <<>>, query |-> <<>>]>>
MaxOfMatches(text, n, names) ==
    <<[text |-> text, max_of |-> n, matches |-> names, query |-> <<>>]>>
WithQuery(text, q) ==
    <<[text |-> text, max_of |-> None, matches |-> <<>>, query |-> q]>>

\* Iterating a set of NamedMonsters: the objects lie at any addresses, so
\* the set may list them in any order.
iterate(matches) ==
    {list \in [1..Cardinality(matches) -> matches] :
        \A i, j \in DOMAIN list : i # j => list[i] # list[j]}

\* A pick of whichever monster comes first.
pickFirstMonster(self, named_monster_list) == named_monster_list[1]

\* MonsterIndex.pickBestMonster: max() returns the first of the largest
pickBestMonster(self, named_monster_list) ==
    LET key_of(p) ==
            LET x == self.all_monsters[p]
            IN  <<IF x.is_low_priority THEN 0 ELSE 1, x.rarity, x.monster_no_na>>
        less(k, l) == \E i \in 1..3 : k[i] < l[i] /\ \A j \in 1..(i - 1) : k[j] = l[j]
        n == Len(named_monster_list)
    IN  named_monster_list[
            CHOOSE i \in 1..n :
                /\ \A j \in 1..n : ~less(key_of(named_monster_list[i]),
                                         key_of(named_monster_list[j]))
                /\ \A j \in 1..(i - 1) : less(key_of(named_monster_list[j]),
                                             key_of(named_monster_list[i]))]

\* The monsters of the entries whose nickname or whose monster passes test
entries_where(self, test(_, _)) ==
    {self.all_entries[nickname] :
        nickname \in {n \in DOMAIN self.all_entries :
                         test(n, self.all_monsters[self.all_entries[n]])}}

\* lines 1836-1837
not_found(self, q) ==
    Returns(Absent, WithQuery("Could not find a match for: ", q), Absent)

\* lines 1830-1834
close_name_match(self, q) ==
    LET answer(matches) ==
            IF Len(matches) > 0
            THEN Returns(<<self.all_na_name_to_monsters[matches[1]]>>, Absent,
                         Text("Close name match"))
            ELSE not_found(self, q)
    IN  answer(get_close_matches(q, DOMAIN self.all_na_name_to_monsters, <<9, 10>>))

\* lines 1825-1828
close_nickname_match(self, q) ==
    LET answer(matches) ==
            IF Len(matches) > 0
            THEN Returns(<<self.all_entries[matches[1]]>>, Absent,
                         Text("Close nickname match"))
            ELSE close_name_match(self, q)
    IN  answer(get_close_matches(q, DOMAIN self.all_entries, <<8, 10>>))

\* query in m.name_na.lower() or query in m.name_jp.lower()
name_contains(m, q) ==
    contains(lower(m.name_na), q) \/ contains(lower(m.name_jp), q)

\* lines 1817-1823
full_list_match(self, q, matches) ==
    LET answer(found) ==
            IF Cardinality(found) > 0
            THEN Picks(found, "Full name match on full list, max of {}", FALSE)
            ELSE close_nickname_match(self, q)
    IN  answer(matches \cup {p \in 1..Len(self.all_monsters) :
                                name_contains(self.all_monsters[p], q)})

\* A search that goes from the two-word entries straight to the full list.
full_name_match_skipped(self, q, matches) == full_list_match(self, q, matches)

\* lines 1810-1815
full_name_match(self, q, matches) ==
    LET answer(found) ==
            IF Cardinality(found) > 0
            THEN Picks(found, "Full name match on nickname, max of {}", FALSE)
            ELSE full_list_match(self, q, found)
    IN  answer(matches \cup
               entries_where(self, LAMBDA nickname, m : name_contains(m, q)))

\* lines 1804-1806
two_word_match(self, q, matches) ==
    IF q \in DOMAIN self.two_word_entries
    THEN Returns(<<self.two_word_entries[q]>>, Absent,
                 MaxOf("Second-word nickname prefix, max of {}",
                       Cardinality(matches)))
    ELSE full_name_match(self, q, matches)

\* lines 1797-1802
full_name_prefix(self, q, matches) ==
    LET answer(found) ==
            IF Cardinality(found) > 0
            THEN Picks(found, "Full name, max of {}", FALSE)
            ELSE two_word_match(self, q, found)
    IN  answer(matches \cup
               entries_where(self, LAMBDA nickname, m :
                   \/ startswith(lower(m.name_na), q)
                   \/ startswith(lower(m.name_jp), q)))

\* lines 1789-1795
nickname_prefix(self, q, matches) ==
    LET answer(found) ==
            IF Cardinality(found) > 0
            THEN Picks(found, "Nickname prefix, max of {}, matches=({})", TRUE)
            ELSE full_name_prefix(self, q, found)
    IN  answer(matches \cup
               entries_where(self, LAMBDA nickname, m : startswith(nickname, q)))

\* A search that goes straight to the plain prefixes.
space_nickname_prefix_skipped(self, q, matches) == nickname_prefix(self, q, matches)

\* lines 1781-1787
space_nickname_prefix(self, q, matches) ==
    LET answer(found) ==
            IF Cardinality(found) > 0
            THEN Picks(found, "Space nickname prefix, max of {}", FALSE)
            ELSE nickname_prefix(self, q, found)
    IN  answer(matches \cup
               entries_where(self, LAMBDA nickname, m :
                   startswith(nickname, q \o <<" ">>)))

MinJapaneseLength == 2
MinLength == 4

\* Mutant of length_gate: a query of any length is searched for.
length_gate_open(self, q) == space_nickname_prefix(self, q, {})

\* lines 1774-1778
length_gate(self, q) ==
    LET contains_jp == containsJp(q)
    IN  IF Len(q) < MinJapaneseLength /\ contains_jp
        THEN Returns(Absent, Text("Japanese queries must be at least 2 characters"),
                     Absent)
        ELSE IF Len(q) < MinLength /\ ~contains_jp
        THEN Returns(Absent, Text("Your query must be at least 4 letters"), Absent)
        ELSE space_nickname_prefix(self, q, {})

\* Mutant of exact_nickname: the keys of all_entries are not looked up.
exact_nickname_skipped(self, q) == length_gate(self, q)

\* lines 1770-1772
exact_nickname(self, q) ==
    IF q \in DOMAIN self.all_entries
    THEN Returns(<<self.all_entries[q]>>, Absent, Text("Exact nickname"))
    ELSE length_gate(self, q)

\* lines 1759-1765
id_search(self, q) ==
    IF isdigit(q)
    THEN IF ~int_accepts(q)
         THEN Raises("ValueError")
         ELSE IF int(q) \notin DOMAIN self.monster_no_na_to_named_monster
         THEN Returns(Absent, Text("Looks like a monster ID but was not found"),
                      Absent)
         ELSE Returns(<<self.monster_no_na_to_named_monster[int(q)]>>, Absent,
                      Text("ID lookup"))
    ELSE exact_nickname(self, q)

\* What find_monster returns for what its stages came to, lines 1787-1823
returned(self, stage, list) ==
    IF "picks" \in DOMAIN stage
    THEN LET all_names == [i \in 1..Len(list) |->
                              self.all_monsters[list[i]].name_na]
         IN  Returns(<<pickBestMonster(self, list)>>, Absent,
                     IF stage.with_names
                     THEN MaxOfMatches(stage.text, Len(list), all_names)
                     ELSE MaxOf(stage.text, Len(list)))
    ELSE stage

\* MonsterIndex.find_monster
find_monster(self, query_string, list) ==
    returned(self, id_search(self, strip(lower(rmdiacritics(query_string)))), list)

(***************************************************************************)
(*                      SpecIndex: build, then query                       *)
(*                                                                         *)
(* index lists the generations built from data, the last one current.     *)
(* result keeps one query and what find_monster did with it, generation    *)
(* by generation: found[g] is the outcome of the call made while           *)
(* generation g was current.                                               *)
(***************************************************************************)

\* Bound: index generations built from one input.
MaxBuilds == 2

\* MonsterIndex.__init__ by download_and_refresh_nicknames, line 125
MonsterIndex_init ==
    /\ Len(index) < MaxBuilds
    /\ result.call = "none"
    /\ index' = Append(index, MonsterIndex(data.database, data.nickname_overrides,
                                           data.basename_overrides))
    /\ UNCHANGED <<data, result, cogvars, dbvars>>

\* MonsterIndex.find_monster, asked of the generations in turn
find_monster_call(q) ==
    LET asked == Len(result.found)
    IN  /\ asked < Len(index)
        /\ result.call = "none" \/ result.query = q
        /\ \E stage \in {id_search(index[asked + 1], strip(lower(rmdiacritics(q))))} :
              \E list \in IF "picks" \in DOMAIN stage THEN iterate(stage.picks)
                          ELSE {<<>>} :
                  result' = [call  |-> "find_monster",
                             query |-> q,
                             found |-> Append(result.found,
                                              returned(index[asked + 1], stage, list))]
        /\ UNCHANGED <<data, index, cogvars, dbvars>>

\* Bound: monsters in the database MonsterIndex reads.
MaxIndexMonsters == 3

IndexMonsterNos == 1..MaxIndexMonsters

\* A PgMonster as the index reads it: a fire god of rarity 5 named Kali.
IndexMonster(no, cur_evo_type) ==
    [monster_no    |-> no,
     monster_no_na |-> no,
     name_na       |-> <<"K", "a", "l", "i">>,
     name_jp       |-> <<"ka", "ni">>,
     roma_subname  |-> <<>>,
     rarity        |-> 5,
     attr1         |-> Fire,
     attr2         |-> None,
     type1         |-> <<"G", "o", "d">>,
     cur_evo_type  |-> cur_evo_type,
     tsr_seq       |-> 1]

\* The ways one monster of a database differs from the others.
Variations ==
    {"none", "rarity6", "rarity1", "awoken", "chibi", "dark_water", "kalis",
     "anna", "anna_dark", "the", "jp", "xmas", "enhance", "alias",
     "nickname", "digits", "accent", "missing", "basename", "short",
     "rarity6_of_rarity3", "tamadra", "annas"}

Vary(m, variation) ==
    CASE variation = "rarity6"    -> [m EXCEPT !.rarity = 6]
      [] variation = "rarity1"    -> [m EXCEPT !.rarity = 1]
      [] variation = "awoken"     -> [m EXCEPT !.name_na = <<"A", "w", "o", "k", "e", "n", " ", "K", "a", "l", "i">>,
                                               !.cur_evo_type = UvoAwoken]
      [] variation = "chibi"      -> [m EXCEPT !.name_na = <<"k", "a", "l", "i">>]
      [] variation = "dark_water" -> [m EXCEPT !.attr1 = Dark, !.attr2 = Water]
      [] variation = "kalis"      -> [m EXCEPT !.name_na = <<"K", "a", "l", "i", "s">>]
      [] variation = "anna"       -> [m EXCEPT !.name_na = <<"A", "n", "n", "a", " ", "K", "a", "l", "i">>]
      [] variation = "anna_dark"  -> [m EXCEPT !.name_na = <<"A", "n", "n", "a", " ", "K", "a", "l", "i">>,
                                               !.attr1 = Dark]
      [] variation = "the"        -> [m EXCEPT !.name_na = <<"K", "a", "l", "i", ",", " ", "t", "h", "e", " ", "D", "a", "r", "k">>]
      [] variation = "jp"         -> [m EXCEPT !.name_na = <<"ka", "ni">>,
                                               !.roma_subname = <<"k", "a", "n", "i">>]
      [] variation = "xmas"       -> [m EXCEPT !.tsr_seq = 136]
      [] variation = "enhance"    -> [m EXCEPT !.type1 = <<"E", "n", "h", "a", "n", "c", "e">>]
      [] variation = "alias"      -> [m EXCEPT !.monster_no_na =
                                                   m.monster_no + MaxIndexMonsters]
      [] variation = "rarity6_of_rarity3" -> [m EXCEPT !.rarity = 6]
      [] variation = "tamadra"    -> [m EXCEPT !.name_na = <<"K", "i", "n", "g", " ", "T", "a", "m", "a", "d", "r", "a">>]
      [] variation = "annas"      -> [m EXCEPT !.name_na = <<"A", "n", "n", "a", " ", "K", "a", "l", "i">>,
                                               !.rarity = 6]
      [] OTHER                    -> m

\* What a variation makes of the other monsters of the database.
VaryOthers(m, variation) ==
    CASE variation = "rarity6_of_rarity3" -> [m EXCEPT !.rarity = 3]
      [] variation = "annas" -> [m EXCEPT !.name_na = <<"A", "n", "n", "a", " ", "K", "a", "l", "i">>]
      [] OTHER -> m

\* The override tables that come with a variation of monster i.
NicknameOverridesOf(variation, i) ==
    CASE variation = "nickname" -> (<<"k", "a", "l", "i">> :> i)
      [] variation = "digits"   -> (<<"1", "2">> :> i)
      [] variation = "accent"   -> (<<"k", "a", "l", "e'">> :> i)
      [] variation = "missing"  -> (<<"k", "a", "l", "i">> :> (i + MaxIndexMonsters))
      [] variation = "short"    -> (<<"k", "a", "l">> :> i)
      [] OTHER                  -> <<>>

BasenameOverridesOf(variation, i) ==
    IF variation = "basename" THEN (i :> {<<"d", "u", "r", "g", "a">>}) ELSE <<>>

\* The groups of the database whose evolution trees end at the monsters in
\* last and at the last monster: runs of consecutive monsters, the first
\* of a run its base.
GroupsEndingAt(last) ==
    LET ends     == last \cup {MaxIndexMonsters}
        start(e) == 1 + CHOOSE s \in (ends \cup {0}) :
                            s < e /\ \A t \in ends : ~(s < t /\ t < e)
        nth(k)   == CHOOSE e \in ends : Cardinality({t \in ends : t <= e}) = k
    IN  [k \in 1..Cardinality(ends) |->
            [base_monster |-> start(nth(k)),
             members |-> [j \in 1..(nth(k) - start(nth(k)) + 1) |->
                             start(nth(k)) + j - 1]]]

IndexDataOf(last, variation, i) ==
    LET groups == GroupsEndingAt(last)
        bases  == {groups[k].base_monster : k \in 1..Len(groups)}
    IN  [database |->
            [mon |-> [no \in IndexMonsterNos |->
                        LET m == IndexMonster(no, IF no \in bases THEN Base ELSE Evo)
                        IN  IF no = i THEN Vary(m, variation)
                            ELSE VaryOthers(m, variation)],
             grouped_monsters |-> groups],
         nickname_overrides |-> NicknameOverridesOf(variation, i),
         basename_overrides |-> BasenameOverridesOf(variation, i)]

IndexData ==
    {IndexDataOf(last, variation, i) :
        last \in {{}} \cup {{e} : e \in 1..(MaxIndexMonsters - 1)},
        variation \in Variations,
        i \in IndexMonsterNos}

\* The queries asked.
Queries ==
    {<<"1">>, <<"3">>, <<"4">>, <<"1", "2">>, <<"sup2">>, <<"1", "sup2">>,
     <<"k", "a", "l", "i">>, <<" ", "K", "a", "l", "i", " ">>, <<"k", "a", "l">>, <<"k", "a", "l", "e'">>, <<>>, <<"ka">>, <<"ka", "ni">>, <<"k", "a", "n", "i">>,
     <<"f", "i", "r", "e">>, <<"r", "e", "d", " ", "k">>, <<"r", "k", "a", "l">>, <<"a", "w", "o", "k", "e", "n">>, <<"a", "w", "o", "k", "e'", "n">>,
     <<"a", "w", "o", "k">>, <<"a", "n", "n", "a">>, <<"d", "a", "r", "k", " ", "k", "a", "l", "i">>, <<"w", "o", "k", "e", "n">>, <<"n", "n", "a", " ", "k">>, <<"d", "u", "r", "g", "a">>, <<"d", "u", "r", "g">>,
     <<"i", "r", "e", " ", "k", "a", "l", "i">>,
     <<"x", "m", "a", "s">>, <<"c", "h", "i", "b", "i">>, <<"e", "v", "o", " ", "k", "a", "l", "i">>, <<"b", "a", "s", "e">>,
     <<"f", "i", "r", "e", " ", "k", "a", "l", "x">>, <<"a", "w", "o", "k", "e", "n", " ", "k", "a", "l", "x">>, <<"k", "a", "l", "i", ",", " ", "t", "h", "e", " ", "d", "a", "r", "x">>, <<"z", "z", "z", "z">>}

InitIndex ==
    /\ data \in IndexData
    /\ index = <<>>
    /\ result = [call |-> "none", query |-> <<>>, found |-> <<>>]
    /\ cog = Idle /\ task = Idle /\ attempt = Idle /\ observed = Idle
    /\ files = Idle /\ db = Idle

NextIndex ==
    \/ MonsterIndex_init
    \/ \E q \in Queries : find_monster_call(q)

SpecIndex == InitIndex /\ [][NextIndex]_vars

(***************************************************************************)
(*             The override tables of one refresh (SpecOverrides)          *)
(*                                                                         *)
(* files holds the rows csv.reader yields for the nickname file and the    *)
(* basename file, a row being the list of its columns.  A dict is the list *)
(* of its items in insertion order.                                        *)
(***************************************************************************)

\* Bound: the rows of the two override files together.
MaxRows == 2

\* results[key] = value
setitem(results, k, v) ==
    IF \E i \in 1..Len(results) : results[i][1] = k
    THEN [i \in 1..Len(results) |->
             IF results[i][1] = k THEN <<k, v>> ELSE results[i]]
    ELSE Append(results, <<k, v>>)

\* PadGuide2._csv_to_key_value_map
RECURSIVE _csv_to_key_value_map(_)
_csv_to_key_value_map(rows) ==
    IF rows = <<>> THEN <<>>
    ELSE
    LET results == _csv_to_key_value_map(SubSeq(rows, 1, Len(rows) - 1))
        row     == rows[Len(rows)]
    IN  IF Len(row) < 2 THEN results
        ELSE IF ~(Len(strip(row[1])) > 0 /\ Len(strip(row[2])) > 0) THEN results
        ELSE setitem(results, strip(row[1]), strip(row[2]))

\* line 116: {k.lower(): int(v) for k, v in items if v.isdigit()}; the dict,
\* or the exception int() raises.
RECURSIVE nickname_overrides_of(_)
nickname_overrides_of(items) ==
    IF items = <<>> THEN [raised |-> NoError, value |-> <<>>]
    ELSE
    LET before == nickname_overrides_of(SubSeq(items, 1, Len(items) - 1))
        k      == items[Len(items)][1]
        v      == items[Len(items)][2]
    IN  IF before.raised # NoError \/ ~isdigit(v) THEN before
        ELSE IF ~int_accepts(v) THEN [before EXCEPT !.raised = "ValueError"]
        ELSE [before EXCEPT !.value =
                 [n \in (DOMAIN before.value) \cup {lower(k)} |->
                     IF n = lower(k) THEN int(v) ELSE before.value[n]]]

\* lines 119-122: the loop that fills self.basename_overrides; the
\* defaultdict as the loop leaves it, and the exception int() raises.
RECURSIVE basename_overrides_of(_)
basename_overrides_of(items) ==
    IF items = <<>> THEN [raised |-> NoError, value |-> <<>>]
    ELSE
    LET before == basename_overrides_of(SubSeq(items, 1, Len(items) - 1))
        k      == items[Len(items)][1]
        v      == items[Len(items)][2]
    IN  IF before.raised # NoError \/ ~isdigit(k) THEN before
        ELSE IF ~int_accepts(k) THEN [before EXCEPT !.raised = "ValueError"]
        ELSE [before EXCEPT !.value =
                 [no \in (DOMAIN before.value) \cup {int(k)} |->
                     IF no = int(k)
                     THEN (IF no \in DOMAIN before.value
                           THEN before.value[no] ELSE {}) \cup {lower(v)}
                     ELSE before.value[no]]]

\* The database every refresh of SpecOverrides loads: three monsters named
\* Kali in one evolution group.
OverridesDatabase == IndexDataOf({}, "none", 1).database

\* PadGuide2.download_and_refresh_nicknames, lines 110-125, on the files
\* read; an attribute is assigned when its line is reached.
refresh_overrides(c, f) ==
    LET nicknames == nickname_overrides_of(_csv_to_key_value_map(f.nicknames))
        basenames == basename_overrides_of(_csv_to_key_value_map(f.basenames))
    IN  IF nicknames.raised # NoError
        THEN [c EXCEPT !.pc = "raised", !.raised = nicknames.raised]
        ELSE IF basenames.raised # NoError
        THEN [c EXCEPT !.pc = "raised", !.raised = basenames.raised,
                       !.nickname_overrides = nicknames.value,
                       !.basename_overrides = basenames.value]
        ELSE [c EXCEPT !.pc = "refreshed",
                       !.nickname_overrides = nicknames.value,
                       !.basename_overrides = basenames.value]

\* One call of download_and_refresh_nicknames.
download_and_refresh_nicknames_call ==
    /\ cog.pc = "constructed"
    /\ cog' = refresh_overrides(cog, files)
    /\ index' = IF cog'.pc = "refreshed"
                THEN <<MonsterIndex(OverridesDatabase, cog'.nickname_overrides,
                                    cog'.basename_overrides)>>
                ELSE index
    /\ UNCHANGED <<task, attempt, observed, files, db, data, result>>

\* The rows an override file is made of.
OverrideRows ==
    {<<>>,
     <<<<"k", "a", "l", "i">>>>,
     <<<<"k", "a", "l", "i">>, <<"1">>>>,
     <<<<" ", "K", "a", "l", "i", " ">>, <<" ", "2", " ">>>>,
     <<<<"k", "a", "l", "i">>, <<" ">>>>,
     <<<<>>, <<"1">>>>,
     <<<<"k", "a", "l", "i">>, <<"sup2">>>>,
     <<<<"1">>, <<"D", "u", "r", "g", "a">>>>,
     <<<<"1">>, <<"k", "a", "l", "i">>, <<"x">>>>,
     <<<<"sup2">>, <<"d", "u", "r", "g", "a">>>>,
     <<<<"2">>, <<"3">>>>}

TablesOf(n) == UNION {[1..k -> OverrideRows] : k \in 0..n}

OverrideFiles ==
    {f \in [nicknames : TablesOf(MaxRows), basenames : TablesOf(MaxRows)] :
        Len(f.nicknames) + Len(f.basenames) <= MaxRows}

InitOverrides ==
    /\ files \in OverrideFiles
    /\ cog = [pc |-> "constructed", raised |-> NoError,
              nickname_overrides |-> <<>>, basename_overrides |-> <<>>]
    /\ index = <<>>
    /\ task = Idle /\ attempt = Idle /\ observed = Idle
    /\ db = Idle /\ data = Idle /\ result = Idle

NextOverrides == download_and_refresh_nicknames_call

SpecOverrides == InitOverrides /\ [][NextOverrides]_vars

(***************************************************************************)
(*          Basenames and prefixes of single monsters (SpecNames)          *)
(*                                                                         *)
(* SpecNames draws one monster in data and applies to it the two functions *)
(* that turn a monster into strings; result holds what the call returned.  *)
(***************************************************************************)

\* Display names: a first part, with and without the tokens 'awoken' and
\* 'reincarnated' at its start and elsewhere; then nothing, ', the ...' or
\* another part behind a comma, with and without a space and a token; then
\* nothing or one more part behind a second comma.
NameHeads ==
    {<<"K", "a", "l", "i">>,
     <<"A", "w", "o", "k", "e", "n", " ", "K", "a", "l", "i">>,
     <<"R", "e", "i", "n", "c", "a", "r", "n", "a", "t", "e", "d", " ", "K", "a", "l", "i">>,
     <<"K", "a", "l", "i", " ", "A", "w", "o", "k", "e", "n">>,
     <<"A", "w", "o", "k", "e", "n", " ", "K", "a", "l", "i", " ", "A", "w", "o", "k", "e", "n">>,
     <<"A", "w", "o", "k", "e", "n", " ", "R", "e", "i", "n", "c", "a", "r", "n", "a", "t", "e", "d", " ", "K", "a", "l", "i">>}

NameTails ==
    {<<>>,
     <<",", " ", "t", "h", "e", " ", "D", "a", "r", "k">>,
     <<",", " ", "D", "u", "r", "g", "a">>,
     <<",", " ", "A", "w", "o", "k", "e", "n", " ", "D", "u", "r", "g", "a">>,
     <<",", "A", "w", "o", "k", "e", "n", " ", "D", "u", "r", "g", "a">>}

NameEnds ==
    {<<>>,
     <<",", " ", "R", "e", "i", "n", "c", "a", "r", "n", "a", "t", "e", "d", " ", "A", "n", "n", "a">>}

Names == {h \o t \o e : h \in NameHeads, t \in NameTails, e \in NameEnds}

\* The monsters drawn: a fire god under each of the names, and a Kali of
\* each first attribute, each second attribute or none, and each
\* evolution stage.
NamedInputs ==
    {[IndexMonster(1, Base) EXCEPT !.name_na = n] : n \in Names}
        \cup {[IndexMonster(1, e) EXCEPT !.attr1 = a1, !.attr2 = a2] :
                  a1 \in Fire..Dark, a2 \in {None} \cup (Fire..Dark),
                  e \in {Base, Evo}}

_compute_monster_basename_call ==
    /\ result.call = "none"
    /\ result' = [call |-> "_compute_monster_basename", m |-> data,
                  value |-> _compute_monster_basename(data)]
    /\ UNCHANGED <<cogvars, dbvars, data, index>>

compute_prefixes_call ==
    /\ result.call = "none"
    /\ result' = [call |-> "compute_prefixes", m |-> data,
                  value |-> compute_prefixes(data)]
    /\ UNCHANGED <<cogvars, dbvars, data, index>>

InitNames ==
    /\ data \in NamedInputs
    /\ result = [call |-> "none"]
    /\ index = Idle
    /\ cog = Idle /\ task = Idle /\ attempt = Idle /\ observed = Idle
    /\ files = Idle /\ db = Idle

NextNames ==
    \/ _compute_monster_basename_call
    \/ compute_prefixes_call

SpecNames == InitNames /\ [][NextNames]_vars

(***************************************************************************)
(*                    PadInfo (the cog of padinfo.py)                      *)
(*                                                                         *)
(* SpecPadInfo uses cog for the attributes of PadInfo, task for            *)
(* reload_nicknames, attempt for the refreshes started by the loop and     *)
(* observed for what findMonster read.  SpecRefresh runs the loop of       *)
(* either cog under the fairness of the event loop.                        *)
(***************************************************************************)

\* Bound: rows of the nickname sheet.
MaxTextRows == 2

\* The keys of PgDataWrapper.id_to_monster (the same monsters every time).
id_to_monster_keys == {1}

\* Rows of the nickname sheet with four columns, cells stripped: the
\* nickname, the monster id and the approval.  An approved row of a stored
\* monster, one of an id that is not stored and one that is not approved.
TextRows ==
    {[nickname |-> "kali", mId |-> <<"1">>, approved |-> "TRUE"],
     [nickname |-> "kali", mId |-> <<"9">>, approved |-> "TRUE"],
     [nickname |-> "kali", mId |-> <<"1">>, approved |-> "FALSE"]}

RECURSIVE TextsOf(_)
TextsOf(n) ==
    IF n = 0 THEN {<<>>}
    ELSE TextsOf(n - 1) \cup
         {Append(t, r) : t \in {x \in TextsOf(n - 1) : Len(x) = n - 1}, r \in TextRows}

\* PgDataWrapper.__init__ of refresh g: the maps before any override.
PgDataWrapper(g) ==
    [gen |-> g, id_to_monster |-> id_to_monster_keys, all_entries |-> {}]

\* self.all_entries[nickname] = monster
set_entry(entries, nickname, monster) ==
    {e \in entries : e[1] # nickname} \cup {<<nickname, monster>>}

\* PgDataWrapper.populateWithOverrides: the wrapper is changed in place, row
\* by row, until a row raises.
RECURSIVE populateWithOverrides(_, _)
populateWithOverrides(wrapper, rows) ==
    IF rows = <<>> THEN [raised |-> NoError, pginfo |-> wrapper]
    ELSE LET row == Head(rows)
         IN  IF row.approved # "TRUE" \/ ~isdigit(row.mId)
             THEN populateWithOverrides(wrapper, Tail(rows))
             ELSE IF ~int_accepts(row.mId)
             THEN [raised |-> "ValueError", pginfo |-> wrapper]
             ELSE IF int(row.mId) \notin wrapper.id_to_monster
             THEN [raised |-> "KeyError", pginfo |-> wrapper]
             ELSE populateWithOverrides(
                      [wrapper EXCEPT !.all_entries =
                           set_entry(@, row.nickname, int(row.mId))],
                      Tail(rows))

\* PadInfo.download_and_refresh_nicknames, refresh g: dl_nicknames returns
\* `text` unless fail = "dl_nicknames", PgDataWrapper() returns unless
\* fail = "PgDataWrapper".  Each attribute is assigned as the line is reached.
PadInfo_download_and_refresh_nicknames(c, g, text, fail) ==
    LET populated(c2) ==
            LET p == populateWithOverrides(c2.pginfo, text)
            IN  IF p.raised # NoError
                THEN [c2 EXCEPT !.pginfo = p.pginfo, !.raised = p.raised]
                ELSE [c2 EXCEPT !.pginfo = p.pginfo, !.raised = NoError,
                                !.id_to_monster = [gen |-> p.pginfo.gen]]
    IN  IF fail = "dl_nicknames" THEN [c EXCEPT !.raised = fail]
        ELSE IF fail = "PgDataWrapper"
        THEN [c EXCEPT !.nickname_text = [gen |-> g, rows |-> text],
                       !.raised = fail]
        ELSE populated([c EXCEPT !.nickname_text = [gen |-> g, rows |-> text],
                                 !.pginfo = PgDataWrapper(g)])

\* PadInfo.__init__ runs the same lines; an instance exists only when none
\* of them raised.
PadInfoInit(text) ==
    PadInfo_download_and_refresh_nicknames(
        [nickname_text |-> [gen |-> 0, rows |-> <<>>], pginfo |-> PgDataWrapper(0),
         id_to_monster |-> [gen |-> 0], raised |-> NoError],
        0, text, "none")

\* asyncio.sleep(60) / asyncio.sleep(60 * 60 * 4)
sleep_always_long(do_short) == 60 * 60 * 4

sleep(do_short) == IF do_short THEN 60 ELSE 60 * 60 * 4

\* The first pass of the loop of reload_nicknames: first_run is set, no
\* refresh is made.
reload_nicknames_first_run ==
    /\ task.pc = "reload_nicknames"
    /\ task.first_run
    /\ task' = [task EXCEPT !.pc = "asyncio.sleep", !.first_run = FALSE,
                            !.do_short = FALSE, !.wait_time = sleep(FALSE)]
    /\ UNCHANGED <<cog, attempt, observed, dbvars, idxvars>>

\* A later pass of the loop, up to the sleep.
reload_nicknames_attempt ==
    /\ task.pc = "reload_nicknames"
    /\ ~task.first_run
    /\ attempt < MaxAttempts
    /\ \E text \in TextsOf(MaxTextRows), fail \in {"dl_nicknames", "PgDataWrapper", "none"} :
          /\ cog' = PadInfo_download_and_refresh_nicknames(cog, attempt + 1, text, fail)
          /\ task' = [task EXCEPT !.pc = "asyncio.sleep",
                                  !.do_short = (cog'.raised # NoError),
                                  !.wait_time = sleep(cog'.raised # NoError)]
    /\ attempt' = attempt + 1
    /\ observed' = [call |-> "none"]
    /\ UNCHANGED <<dbvars, idxvars>>

\* The sleep returns and the loop condition is evaluated:
\* while "PadInfo" in self.bot.cogs.
reload_nicknames_wake ==
    /\ task.pc = "asyncio.sleep"
    /\ task' = [task EXCEPT !.pc = IF task.registered THEN "reload_nicknames"
                                   ELSE "done reload_nicknames"]
    /\ UNCHANGED <<cog, attempt, observed, dbvars, idxvars>>

\* The bot removes the cog: PadInfo.__unload cancels the task, the sleep
\* raises and the coroutine ends.
PadInfo_unload ==
    /\ task.pc = "asyncio.sleep"
    /\ task.registered
    /\ task' = [task EXCEPT !.pc = "cancelled", !.registered = FALSE]
    /\ UNCHANGED <<cog, attempt, observed, dbvars, idxvars>>

\* PadInfo.findMonster reads self.id_to_monster for an id query and
\* self.pginfo for every other query.
findMonster ==
    /\ task.pc = "asyncio.sleep"
    /\ task.registered
    /\ observed' = [call |-> "findMonster",
                    id_to_monster |-> cog.id_to_monster,
                    pginfo |-> cog.pginfo]
    /\ UNCHANGED <<cog, task, attempt, dbvars, idxvars>>

InitPadInfo ==
    /\ \E text \in TextsOf(MaxTextRows) :
          /\ populateWithOverrides(PgDataWrapper(0), text).raised = NoError
          /\ cog = PadInfoInit(text)
    /\ task = [pc |-> "reload_nicknames", first_run |-> TRUE, do_short |-> FALSE,
               wait_time |-> 0, registered |-> TRUE]
    /\ attempt = 0
    /\ observed = [call |-> "none"]
    /\ files = Idle /\ db = Idle
    /\ data = Idle /\ index = Idle /\ result = Idle

NextPadInfo ==
    \/ reload_nicknames_first_run
    \/ reload_nicknames_attempt
    \/ reload_nicknames_wake
    \/ PadInfo_unload
    \/ findMonster

SpecPadInfo == InitPadInfo /\ [][NextPadInfo]_vars

\* The refresh loop of either cog.  The event loop runs a task that can run
\* and every sleep returns.
InitRefresh == InitCog \/ InitPadInfo

NextRefresh == NextCog \/ NextPadInfo

SpecRefresh ==
    /\ InitRefresh
    /\ [][NextRefresh]_vars
    /\ WF_vars(reload_data_task_attempt)
    /\ WF_vars(reload_data_task_wake)
    /\ WF_vars(reload_nicknames_first_run)
    /\ WF_vars(reload_nicknames_attempt)
    /\ WF_vars(reload_nicknames_wake)

(***************************************************************************)
(*                     Claims about the cog (SpecCog)                      *)
(***************************************************************************)

\* C1: after any sequence of refresh attempts, each of which may raise at any
\* of its steps, the published nickname_overrides, basename_overrides,
\* database and index were produced by one and the same attempt, a
\* create_index call made between attempts is handed parts of one attempt
\* only, and so a failed attempt has left the four as they were.
C1_PublishedPartsShareOneGeneration ==
    /\ cog.nickname_overrides = cog.database
    /\ cog.basename_overrides = cog.database
    /\ cog.index # Unset =>
          /\ cog.index.gen = cog.database.gen
          /\ cog.index.database = cog.database
          /\ cog.index.nickname_overrides = cog.nickname_overrides
          /\ cog.index.basename_overrides = cog.basename_overrides
    /\ observed.call = "create_index" =>
          /\ observed.index.nickname_overrides = observed.index.database
          /\ observed.index.basename_overrides = observed.index.database

\* C29 (as stated): from the construction of the cog on, before the first
\* refresh and after refreshes that raised alike, the cog has an index, and
\* the query command gets an answer of find_monster instead of raising.
C29_IndexPublishedFromConstruction ==
    /\ cog.index # Unset
    /\ observed.call = "query" => ~observed.raised

(***************************************************************************)
(*               Claims about PgRawDatabase (SpecDb)                       *)
(***************************************************************************)

Built == db.pc \in {"finish", "done"}

Members(g) == {g.members[i] : i \in 1..Len(g.members)}

\* The flags of member m agree with the OR over the members of group g.
FlagsAreGroupOr(g, m) ==
    /\ db.mon[m].farmable_evo = (\E x \in Members(g) : db.mon[x].farmable)
    /\ db.mon[m].pem_evo = (\E x \in Members(g) : db.mon[x].in_pem)
    /\ db.mon[m].rem_evo = (\E x \in Members(g) : db.mon[x].in_rem)
    /\ db.mon[m].mp_evo = (\E x \in Members(g) : db.mon[x].in_mpshop)

Stored == {db.all_pg_items[i] : i \in 1..Len(db.all_pg_items)}

\* C10: no finalize runs before every stored entity is loaded, and a
\* finalized monster is farmable exactly when a stored PgDungeonMonster
\* names it as its drop monster.
C10_FinalizeAfterEveryLoad ==
    (db.pc # "start") =>
        \A it \in db.finalized :
            /\ Stored \subseteq db.loaded
            /\ it.type = "PgMonster" =>
                  (db.mon[it.key].farmable <=>
                      \E i \in 1..Len(db.maps["PgDungeonMonster"]) :
                          db.maps["PgDungeonMonster"][i].DROP_NO = it.key)

\* C10 witness: the finalize pass is under way, one finalized monster is
\* farmable and another one is not.
C10_Witness ==
    /\ db.pc = "finalize"
    /\ \E a, b \in db.finalized :
          /\ a.type = "PgMonster" /\ b.type = "PgMonster"
          /\ db.mon[a.key].farmable
          /\ ~db.mon[b.key].farmable

\* C11: in one database build the load of a stored entity runs at most
\* once, however many entities fetch it through the get accessors and in
\* whatever order they are visited, only stored entities are loaded, and when
\* the ensure-loaded pass has ended every stored entity is marked loaded and
\* has run its load exactly once.
C11_LoadRunsAtMostOnce ==
    (db.pc # "start") =>
        /\ db.loaded \subseteq Stored
        /\ \A it \in Stored :
              /\ db.load_count[it] <= 1
              /\ db.load_count[it] = 1 <=> it \in db.loaded
        /\ db.pc \in {"finalize", "group", "finish", "done"} =>
              Stored \subseteq db.loaded

\* C11 witness: the pass has ended on a dataset in which monster 1 is fetched
\* by an awakening, an evolution and a skill rotation before the loop visits
\* it, and the rotation is fetched by a dated rotation.
C11_Witness ==
    /\ db.pc = "finalize"
    /\ Item("PgAwakening", 1) \in db.loaded
    /\ Item("PgEvolution", EvoSeq(1, 2)) \in db.loaded
    /\ Item("PgSkillRotationDated", 1) \in db.loaded
    /\ db.load_count[Item("PgMonster", 1)] = 1
    /\ db.load_count[Item("PgSkillRotation", 1)] = 1

\* The exceptions a load raises on reading an attribute of a reference that
\* resolved to None.
MissingReferenceErrors ==
    {"PgAwakening.load: monster is None", "PgAwakening.load: skill is None",
     "PgEvolution.load: to_monster is None",
     "PgEvolution.load: from_monster is None",
     "PgEvolutionMaterial.load: fodder_monster is None"}

\* C12 (as stated): a record whose foreign key names an id that is not stored
\* (an awakening without its monster or skill, an evolution without its
\* source or target, an evolution material without its fodder monster) never
\* makes the construction raise.
C12_MissingReferenceIsTolerated ==
    (db.pc # "start") => db.error \notin MissingReferenceErrors

\* The monsters stored without a monsterInfoList or a monsterPriceList row.
Lacking ==
    {k \in DOMAIN db.mon :
        ~Has(db, "PgMonsterInfo", k) \/ ~Has(db, "PgMonsterPrice", k)}

\* C13: when a stored monster has no info row or no price row, the load of
\* that monster ends in an exception, the construction never gets past the
\* ensure-loaded pass (so no database with that monster is ever handed out),
\* and the outcome is a raised exception, which no result of find_monster is.
C13_MissingInfoOrPriceRaises ==
    (db.pc # "start" /\ Lacking # {}) =>
        /\ db.pc \in {"ensure", "raised"}
        /\ \A k \in Lacking :
              Item("PgMonster", k) \in db.loaded =>
                  /\ db.pc = "raised"
                  /\ Raises(db.error).raised # NoError
                  /\ Raises(db.error) # not_found(Idle, <<>>)

\* C13 witness: the construction has raised in the load of a monster that has
\* its info row and its series and no price row.
C13_Witness ==
    /\ db.pc = "raised"
    /\ db.error = "PgMonster.load: monster_price is None"
    /\ Lacking # {}

\* The entities of the list files whose deleted predicate is true.
Deleted ==
    UNION {{Item(t, key(t, files[t][i])) :
               i \in {i \in 1..Len(files[t]) : deleted(t, files[t][i])}} :
           t \in Types}

Elements(seq) == {seq[i] : i \in 1..Len(seq)}

\* C14: an entity whose deleted predicate is true is in no map and not in the
\* traversal list, is never loaded and never finalized, and leaves no trace
\* on a monster: a deleted awakening is in no awakenings list, and a monster
\* has left the Base evolution type only through a stored evolution.
C14_DeletedEntitiesAreAbsent ==
    (db.pc # "start") =>
        /\ \A it \in Deleted :
              /\ ~Has(db, it.type, it.key)
              /\ it \notin Stored
              /\ it \notin db.loaded
              /\ it \notin db.finalized
              /\ it.type = "PgAwakening" =>
                    \A k \in DOMAIN db.mon :
                        it.key \notin Elements(db.mon[k].awakenings)
        /\ \A k \in DOMAIN db.mon :
              db.mon[k].cur_evo_type # Base =>
                  \E i \in 1..Len(db.maps["PgEvolution"]) :
                      /\ db.maps["PgEvolution"][i].TO_NO = k
                      /\ Item("PgEvolution", db.maps["PgEvolution"][i].TV_SEQ)
                            \notin Deleted

\* C14 witness: a construction has finished on a dataset with deleted
\* entities of two types.
C14_Witness ==
    /\ db.pc = "done"
    /\ Cardinality({it.type : it \in Deleted}) = 2

\* C15 (as stated): weighted_stats of every monster is the sum of the three
\* quotients hp / 10, atk / 5 and rcv / 3, each truncated before the sum.
C15_EachTermTruncated ==
    (db.pc # "start") =>
        \A k \in DOMAIN db.mon :
            db.mon[k].weighted_stats =
                (db.mon[k].hp \div 10) + (db.mon[k].atk \div 5)
                    + (db.mon[k].rcv \div 3)

\* C15 (amended): weighted_stats of every monster is the integer part of the
\* sum hp / 10 + atk / 5 + rcv / 3, truncated once after the sum: it is the
\* integer w with 30 w <= 3 hp + 6 atk + 10 rcv < 30 (w + 1), which is the
\* sum of the truncated terms or up to 2 more.
C15_SumTruncatedOnce ==
    (db.pc # "start") =>
        \A k \in DOMAIN db.mon :
            LET m == db.mon[k]
                terms == (m.hp \div 10) + (m.atk \div 5) + (m.rcv \div 3)
            IN  /\ 30 * m.weighted_stats <= 3 * m.hp + 6 * m.atk + 10 * m.rcv
                /\ 3 * m.hp + 6 * m.atk + 10 * m.rcv < 30 * (m.weighted_stats + 1)
                /\ m.weighted_stats \in terms..(terms + 2)

\* C15 witness: a database is built whose monster has hp 5, atk 3, rcv 0 and
\* weighted_stats 1 (0.5 + 0.6 = 1.1), where the truncated terms add up to 0.
C15_Witness ==
    /\ db.pc = "done"
    /\ \E k \in DOMAIN db.mon :
          /\ db.mon[k].hp = 5 /\ db.mon[k].atk = 3 /\ db.mon[k].rcv = 0
          /\ db.mon[k].weighted_stats = 1

Grouped == db.pc \in {"group", "finish", "done"}

\* The monsters reached from the monsters in S along evo_to.
RECURSIVE ReachedFrom(_)
ReachedFrom(S) ==
    LET next == S \cup UNION {{db.mon[m].evo_to[i] : i \in 1..Len(db.mon[m].evo_to)} :
                               m \in S}
    IN  IF next = S THEN S ELSE ReachedFrom(next)

\* C26 (as stated): once the database is built, whatever TV_TYPE the
\* evolution records have, every group starts with its base monster, which
\* is its only member of stage Base; its members are the monsters reached
\* from the base along evo_to, each listed after a member it evolves from;
\* and the group of a base monster without evolutions is that monster alone.
C26_OneBaseMemberPerGroup ==
    Built =>
        \A k \in 1..Len(db.grouped_monsters) :
            LET g == db.grouped_monsters[k]
            IN  /\ g.members[1] = g.base_monster
                /\ {i \in 1..Len(g.members) :
                       db.mon[g.members[i]].cur_evo_type = Base} = {1}
                /\ Members(g) = ReachedFrom({g.base_monster})
                /\ \A i \in 2..Len(g.members) :
                      \E j \in 1..(i - 1) :
                          \E e \in 1..Len(db.mon[g.members[j]].evo_to) :
                              db.mon[g.members[j]].evo_to[e] = g.members[i]
                /\ db.mon[g.base_monster].evo_to = <<>> =>
                      g.members = <<g.base_monster>>

\* C27 (as stated): whatever evolution records are stored, records that give
\* a monster several sources or that close a cycle included, the
\* construction of every group ends, and no group lists a monster twice.
C27_GroupsEndWithoutRepeats ==
    /\ db.pc = "raised" =>
          db.error # "MonsterGroup._recursive_add: RecursionError"
    /\ Grouped =>
          \A k \in 1..Len(db.grouped_monsters) :
              Cardinality(Members(db.grouped_monsters[k]))
                  = Len(db.grouped_monsters[k].members)

\* The assist setting PgMonster.load reads for monster k: EXTRA_VAL1 of its
\* add-info record, None without one.
AssistSettingOf(k) ==
    IF \E i \in 1..Len(files.PgMonsterAddInfo) :
           files.PgMonsterAddInfo[i].MONSTER_NO = k
    THEN LET i == CHOOSE i \in 1..Len(files.PgMonsterAddInfo) :
                      files.PgMonsterAddInfo[i].MONSTER_NO = k
         IN  files.PgMonsterAddInfo[i].EXTRA_VAL1
    ELSE None

\* C28 (as stated): once the database is built, a monster whose assist
\* setting is neither 1 nor 2, or that has no add-info record, is
\* inheritable exactly when its full list of awakenings, as it is after all
\* records are linked, is not empty, its rarity is at least 5 and its sell_mp
\* is above 3000.
C28_InheritableFromAllAwakenings ==
    Built =>
        \A k \in DOMAIN db.mon :
            AssistSettingOf(k) \notin {1, 2} =>
                db.mon[k].is_inheritable
                    = (/\ Len(db.mon[k].awakenings) > 0
                       /\ db.mon[k].rarity >= 5
                       /\ db.mon[k].sell_mp > 3000)

(***************************************************************************)
(*                 Claims about MonsterIndex (SpecIndex)                   *)
(***************************************************************************)

Asked == result.call = "find_monster"

\* The latest call: the generation asked and what find_monster did.
Self == index[Len(result.found)]
Outcome == result.found[Len(result.found)]
AllMonsters == Self.all_monsters
Positions == DOMAIN AllMonsters

\* The generation built last.
Newest == index[Len(index)]

\* The query as find_monster searches for it.
Normalised == strip(lower(rmdiacritics(result.query)))

Characters == {CodePoints[i] : i \in 1..Len(CodePoints)}
IsString(x) == x \in Seq(Characters)
IsStringSet(x) == \A s \in x : IsString(s)

NamedMonsterAttributes ==
    {"monster_no", "monster_no_na", "group_basenames", "prefixes",
     "is_low_priority", "group_size", "rarity", "name_na", "name_jp",
     "monster_basename", "group_computed_basename", "extra_nicknames",
     "two_word_basenames", "final_nicknames", "final_two_word_nicknames"}

MonsterIndexAttributes ==
    {"all_entries", "two_word_entries", "all_monsters", "all_na_name_to_monsters",
     "monster_no_na_to_named_monster", "monster_no_to_named_monster"}

HoldsOnlyProjections(nm) ==
    /\ DOMAIN nm = NamedMonsterAttributes
    /\ nm.monster_no \in Int /\ nm.monster_no_na \in Int
    /\ nm.group_size \in Int /\ nm.rarity \in Int
    /\ nm.is_low_priority \in BOOLEAN
    /\ IsString(nm.name_na) /\ IsString(nm.name_jp)
    /\ IsString(nm.monster_basename) /\ IsString(nm.group_computed_basename)
    /\ IsStringSet(nm.group_basenames) /\ IsStringSet(nm.prefixes)
    /\ IsStringSet(nm.extra_nicknames) /\ IsStringSet(nm.two_word_basenames)
    /\ IsStringSet(nm.final_nicknames) /\ IsStringSet(nm.final_two_word_nicknames)

\* C2: every generation built has, besides its constant prefix tables, the
\* six maps and lists of MonsterIndex and nothing else; each of them leads
\* only to NamedMonsters, from strings or ids; and a NamedMonster has its fifteen attributes and nothing else,
\* each an id, a number, a boolean, a string or a set of strings: no
\* monster, group or database is held.
C2_IndexHoldsOnlyProjections ==
    (Len(index) >= 1) =>
        /\ DOMAIN Newest = MonsterIndexAttributes
        /\ \A p \in DOMAIN Newest.all_monsters :
              HoldsOnlyProjections(Newest.all_monsters[p])
        /\ \A n \in DOMAIN Newest.all_entries :
              IsString(n) /\ Newest.all_entries[n] \in DOMAIN Newest.all_monsters
        /\ \A n \in DOMAIN Newest.two_word_entries :
              IsString(n) /\ Newest.two_word_entries[n] \in DOMAIN Newest.all_monsters
        /\ \A n \in DOMAIN Newest.all_na_name_to_monsters :
              IsString(n)
                  /\ Newest.all_na_name_to_monsters[n] \in DOMAIN Newest.all_monsters
        /\ \A no \in DOMAIN Newest.monster_no_na_to_named_monster :
              no \in Int
                  /\ Newest.monster_no_na_to_named_monster[no]
                         \in DOMAIN Newest.all_monsters
        /\ \A no \in DOMAIN Newest.monster_no_to_named_monster :
              no \in Int
                  /\ Newest.monster_no_to_named_monster[no]
                         \in DOMAIN Newest.all_monsters

\* C2 witness: the index has been rebuilt, and a monster of it has an
\* override nickname and the nicknames of its group's basename.
C2_Witness ==
    /\ Len(index) >= 2
    /\ \E p \in DOMAIN Newest.all_monsters :
          /\ Newest.all_monsters[p].extra_nicknames # {}
          /\ Newest.all_monsters[p].group_basenames # {}
          /\ Newest.all_monsters[p].prefixes # {}

\* C3: every call of find_monster returns, and returns either a monster, no
\* reason and a label, or no monster, a reason and no label.
C3_FindMonsterReturnsOneOfTwoShapes ==
    Asked =>
        /\ Outcome.raised = NoError
        /\ Len(Outcome.value) = 3
        /\ \/ /\ Outcome.value[1] # Absent
              /\ Outcome.value[2] = Absent
              /\ Outcome.value[3] # Absent
           \/ /\ Outcome.value[1] = Absent
              /\ Outcome.value[2] # Absent
              /\ Outcome.value[3] = Absent

\* The stages of find_monster in the order of the specification, each with
\* the texts of the triples it returns.
StageTexts ==
    <<{"ID lookup", "Looks like a monster ID but was not found"},
      {"Exact nickname"},
      {"Japanese queries must be at least 2 characters",
       "Your query must be at least 4 letters"},
      {"Space nickname prefix, max of {}"},
      {"Nickname prefix, max of {}, matches=({})"},
      {"Full name, max of {}"},
      {"Second-word nickname prefix, max of {}"},
      {"Full name match on nickname, max of {}"},
      {"Full name match on full list, max of {}"},
      {"Close nickname match"},
      {"Close name match"},
      {"Could not find a match for: "}>>

Stages == DOMAIN StageTexts

\* The stages that reduce a set of matches with pickBestMonster.
PickStages == {4, 5, 6, 8, 9}

ReturnedMonster(r) == r.raised = NoError /\ r.value[1] # Absent
MonsterOf(r) == AllMonsters[r.value[1][1]]

\* The stage a call's outcome comes from; an exception comes from int().
StageOf(r) ==
    IF r.raised # NoError THEN 1
    ELSE LET text == IF r.value[1] # Absent THEN r.value[3][1].text
                     ELSE r.value[2][1].text
         IN  CHOOSE k \in Stages : text \in StageTexts[k]

\* The monsters that own an entry of all_entries whose key passes test.
OwnersOfKeys(test(_)) ==
    {Self.all_entries[n] : n \in {k \in DOMAIN Self.all_entries : test(k)}}

\* The monsters that own an entry of all_entries and pass test.
OwnersThat(test(_)) ==
    {p \in {Self.all_entries[n] : n \in DOMAIN Self.all_entries} :
        test(AllMonsters[p])}

\* The candidates of stage k for the query nq, by the stage's own rule.
Candidates(k, nq) ==
    CASE k = 1 -> IF int_accepts(nq)
                     /\ int(nq) \in DOMAIN Self.monster_no_na_to_named_monster
                  THEN {Self.monster_no_na_to_named_monster[int(nq)]} ELSE {}
      [] k = 2 -> IF nq \in DOMAIN Self.all_entries
                  THEN {Self.all_entries[nq]} ELSE {}
      [] k = 4 -> OwnersOfKeys(LAMBDA n : startswith(n, nq \o <<" ">>))
      [] k = 5 -> OwnersOfKeys(LAMBDA n : startswith(n, nq))
      [] k = 6 -> OwnersThat(LAMBDA m : \/ startswith(lower(m.name_na), nq)
                                        \/ startswith(lower(m.name_jp), nq))
      [] k = 7 -> IF nq \in DOMAIN Self.two_word_entries
                  THEN {Self.two_word_entries[nq]} ELSE {}
      [] k = 8 -> OwnersThat(LAMBDA m : \/ contains(lower(m.name_na), nq)
                                        \/ contains(lower(m.name_jp), nq))
      [] k = 9 -> {p \in Positions : \/ contains(lower(AllMonsters[p].name_na), nq)
                                     \/ contains(lower(AllMonsters[p].name_jp), nq)}
      [] k = 10 -> {Self.all_entries[n] :
                       n \in {x \in DOMAIN Self.all_entries :
                                 at_least(ratio(x, nq), <<8, 10>>)}}
      [] k = 11 -> {Self.all_na_name_to_monsters[n] :
                       n \in {x \in DOMAIN Self.all_na_name_to_monsters :
                                 at_least(ratio(x, nq), <<9, 10>>)}}
      [] OTHER -> {}

\* Stage k decides the query nq: it has a candidate, or it is the numeric
\* stage, the length gate or the last stage and the query is its own.
Decides(k, nq) ==
    CASE k = 1 -> isdigit(nq)
      [] k = 3 -> \/ Len(nq) < MinJapaneseLength /\ containsJp(nq)
                  \/ Len(nq) < MinLength /\ ~containsJp(nq)
      [] k = 12 -> TRUE
      [] OTHER -> Candidates(k, nq) # {}

\* (not is_low_priority, rarity, monster_no_na) of a is below that of b
PickKeyBelow(a, b) ==
    \/ a.is_low_priority /\ ~b.is_low_priority
    \/ a.is_low_priority = b.is_low_priority /\ a.rarity < b.rarity
    \/ a.is_low_priority = b.is_low_priority /\ a.rarity = b.rarity
          /\ a.monster_no_na < b.monster_no_na

\* C4: the outcome of every call comes from the first stage, in the order
\* of the specification, that decides the query, and a returned monster is
\* one of that stage's candidates: at a stage that picks the best, the best
\* of that stage's candidates alone.
C4_FirstDecidingStageAnswers ==
    Asked =>
        LET k == StageOf(Outcome)
        IN  /\ Decides(k, Normalised)
            /\ \A j \in 1..(k - 1) : ~Decides(j, Normalised)
            /\ ReturnedMonster(Outcome) =>
                  /\ Outcome.value[1][1] \in Candidates(k, Normalised)
                  /\ k \in PickStages =>
                        \A p \in Candidates(k, Normalised) :
                            ~PickKeyBelow(MonsterOf(Outcome), AllMonsters[p])

\* C4 witness: a stage before the substring stages answered, and a monster
\* that is no candidate of that stage, but whose name contains the query,
\* ranks above the returned monster.
C4_Witness ==
    /\ Asked
    /\ ReturnedMonster(Outcome)
    /\ StageOf(Outcome) \in 2..7
    /\ \E p \in Candidates(9, Normalised) \ Candidates(StageOf(Outcome), Normalised) :
          PickKeyBelow(MonsterOf(Outcome), AllMonsters[p])

\* The monsters that carry the nickname nq, and those that carry it as a
\* two-word nickname.
Carriers(nq) == {p \in Positions : nq \in AllMonsters[p].final_nicknames}
TwoWordCarriers(nq) ==
    {p \in Positions : nq \in AllMonsters[p].final_two_word_nicknames}

\* Two monsters that differ only in id among what pickBestMonster compares.
SmallerOfAPair(a, b) ==
    /\ a.is_low_priority = b.is_low_priority
    /\ a.rarity = b.rarity
    /\ a.monster_no_na < b.monster_no_na

\* C5 as stated: when a stage returns a monster, then of two monsters that
\* both carry the matched nickname, or both match at the stage, and have the
\* same is_low_priority and rarity, the one with the smaller id is not the
\* one returned.
C5_LargerIdWinsAmongCarriers ==
    (Asked /\ ReturnedMonster(Outcome)) =>
        LET k    == StageOf(Outcome)
            pool == CASE k = 2 -> Carriers(Normalised)
                      [] k = 7 -> TwoWordCarriers(Normalised)
                      [] OTHER -> Candidates(k, Normalised)
        IN  \A p, r \in pool :
                SmallerOfAPair(AllMonsters[p], AllMonsters[r])
                    => Outcome.value[1][1] # p

\* C5 amended: when a stage that picks the best of its matches returns a
\* monster, then of two of its matches with the same is_low_priority and
\* rarity, the one with the smaller id is not the one returned, whatever
\* the sizes of their groups.
C5_LargerIdWinsAmongMatches ==
    (Asked /\ ReturnedMonster(Outcome) /\ StageOf(Outcome) \in PickStages) =>
        \A p, r \in Candidates(StageOf(Outcome), Normalised) :
            SmallerOfAPair(AllMonsters[p], AllMonsters[r])
                => Outcome.value[1][1] # p

\* C5 witness: a stage that picks the best returned the monster with the
\* larger id of two matches with the same is_low_priority and rarity, and
\* the other one has the larger group.
C5_Witness ==
    /\ Asked
    /\ ReturnedMonster(Outcome)
    /\ StageOf(Outcome) \in PickStages
    /\ \E p \in Candidates(StageOf(Outcome), Normalised) :
          /\ SmallerOfAPair(AllMonsters[p], MonsterOf(Outcome))
          /\ AllMonsters[p].group_size > MonsterOf(Outcome).group_size

\* C6 as stated: a query that is a key of the nickname override table
\* returns the monster with the alias id the table gives for it.
C6_OverrideAlwaysWins ==
    (Asked /\ result.query \in DOMAIN data.nickname_overrides) =>
        /\ ReturnedMonster(Outcome)
        /\ MonsterOf(Outcome).monster_no_na = data.nickname_overrides[result.query]

\* C6 amended: a query that is a key of the nickname override table, is not
\* all digits, is searched for as it is written, and is given the alias id
\* of a monster of the index, returns exactly that monster, from the exact
\* nickname stage.
C6_OverrideWinsWhenApplied ==
    (/\ Asked
     /\ result.query \in DOMAIN data.nickname_overrides
     /\ ~isdigit(result.query)
     /\ Normalised = result.query
     /\ data.nickname_overrides[result.query]
            \in DOMAIN Self.monster_no_na_to_named_monster) =>
        /\ ReturnedMonster(Outcome)
        /\ StageOf(Outcome) = 2
        /\ Outcome.value[1][1] =
               Self.monster_no_na_to_named_monster[data.nickname_overrides[result.query]]
        /\ MonsterOf(Outcome).monster_no_na = data.nickname_overrides[result.query]

\* (not is_low_priority, group_size, monster_no_na) of a is below that of b
SortKeyBelow(a, b) ==
    \/ a.is_low_priority /\ ~b.is_low_priority
    \/ a.is_low_priority = b.is_low_priority /\ a.group_size < b.group_size
    \/ a.is_low_priority = b.is_low_priority /\ a.group_size = b.group_size
          /\ a.monster_no_na < b.monster_no_na

\* C6 witness: the override nickname was asked and returned its monster,
\* though another monster carries the same string as a computed nickname
\* and ranks above it both for the index and for pickBestMonster.
C6_Witness ==
    /\ Asked
    /\ result.query \in DOMAIN data.nickname_overrides
    /\ ReturnedMonster(Outcome)
    /\ MonsterOf(Outcome).monster_no_na = data.nickname_overrides[result.query]
    /\ \E p \in Carriers(result.query) :
          /\ SortKeyBelow(MonsterOf(Outcome), AllMonsters[p])
          /\ PickKeyBelow(MonsterOf(Outcome), AllMonsters[p])

\* The entries of a nickname map go to the best of the carriers: every
\* string carried has an entry, and the owner of an entry that no override
\* sets carries the string, and no carrier has a larger key.
BestOfCarriers(self, entries, nicknames_of_monster(_), fixed) ==
    /\ \A p \in DOMAIN self.all_monsters :
          nicknames_of_monster(self.all_monsters[p]) \subseteq DOMAIN entries
    /\ \A n \in DOMAIN entries \ fixed :
          /\ n \in nicknames_of_monster(self.all_monsters[entries[n]])
          /\ \A p \in DOMAIN self.all_monsters :
                n \in nicknames_of_monster(self.all_monsters[p])
                    => ~SortKeyBelow(self.all_monsters[entries[n]], self.all_monsters[p])

\* C7: in every generation built, all_entries maps every nickname that is
\* no key of the override table to the largest, by (not is_low_priority,
\* group_size, monster_no_na), of the NamedMonsters whose final_nicknames
\* hold it, and two_word_entries maps every string to the largest of those
\* whose final_two_word_nicknames hold it.
C7_EntriesGoToLargestSortKey ==
    (Len(index) >= 1) =>
        /\ BestOfCarriers(Newest, Newest.all_entries,
                          LAMBDA m : m.final_nicknames,
                          DOMAIN data.nickname_overrides)
        /\ BestOfCarriers(Newest, Newest.two_word_entries,
                          LAMBDA m : m.final_two_word_nicknames, {})

\* C7 witness: a nickname that is no override key is carried by two
\* monsters, and its entry goes to the one with the smaller id, which has
\* the larger group.
C7_Witness ==
    /\ Len(index) >= 1
    /\ \E n \in DOMAIN Newest.all_entries \ DOMAIN data.nickname_overrides :
          \E p \in DOMAIN Newest.all_monsters :
              /\ n \in Newest.all_monsters[p].final_nicknames
              /\ Newest.all_monsters[p].monster_no_na
                     > Newest.all_monsters[Newest.all_entries[n]].monster_no_na
              /\ Newest.all_monsters[p].group_size
                     < Newest.all_monsters[Newest.all_entries[n]].group_size

\* What a caller sees of an outcome: the alias id, the reason and the label.
Seen(self, r) ==
    IF r.raised # NoError THEN <<r.raised>>
    ELSE <<IF r.value[1] = Absent THEN Absent
           ELSE <<self.all_monsters[r.value[1][1]].monster_no_na>>,
           r.value[2], r.value[3]>>

\* C9: the generations built from one input have the same alias ids under
\* every key of all_entries and two_word_entries, and the query gets the
\* same alias id, reason and label from each generation asked.
C9_RebuildsAnswerAlike ==
    /\ \A g, h \in DOMAIN index :
          /\ DOMAIN index[g].all_entries = DOMAIN index[h].all_entries
          /\ DOMAIN index[g].two_word_entries = DOMAIN index[h].two_word_entries
          /\ \A n \in DOMAIN index[g].all_entries :
                index[g].all_monsters[index[g].all_entries[n]].monster_no_na
                    = index[h].all_monsters[index[h].all_entries[n]].monster_no_na
          /\ \A n \in DOMAIN index[g].two_word_entries :
                index[g].all_monsters[index[g].two_word_entries[n]].monster_no_na
                    = index[h].all_monsters[index[h].two_word_entries[n]].monster_no_na
    /\ \A g, h \in DOMAIN result.found :
          Seen(index[g], result.found[g]) = Seen(index[h], result.found[h])


\* C16 (as stated): a query made only of digits is decided by the alias-id
\* map alone: find_monster returns the monster with that monster_no_na and
\* the label 'ID lookup' when there is one, and otherwise the rejection
\* 'Looks like a monster ID but was not found'.
C16_DigitQueriesAreDecidedByIdMap ==
    (Asked /\ isdigit(Normalised)) =>
        LET ids == {no \in DOMAIN Self.monster_no_na_to_named_monster :
                       int_accepts(Normalised) /\ no = int(Normalised)}
        IN  Outcome =
                IF ids # {}
                THEN Returns(<<Self.monster_no_na_to_named_monster[
                                  CHOOSE no \in ids : TRUE]>>,
                             Absent, Text("ID lookup"))
                ELSE Returns(Absent,
                             Text("Looks like a monster ID but was not found"),
                             Absent)

TooShort == Returns(Absent, Text("Your query must be at least 4 letters"), Absent)

TooShortJapanese ==
    Returns(Absent, Text("Japanese queries must be at least 2 characters"), Absent)

\* C17: a query that is not made of digits and is no key of all_entries is
\* rejected as too short when it has fewer than 4 characters and no Japanese
\* one, or fewer than 2 characters and a Japanese one, and by this gate only
\* then; a query that is a key of all_entries returns the owner of the key
\* as 'Exact nickname' whatever its length.
C17_LengthGateAfterExactNickname ==
    (Asked /\ ~isdigit(Normalised)) =>
        LET nq == Normalised
            is_key == nq \in DOMAIN Self.all_entries
        IN  /\ is_key =>
                  Outcome = Returns(<<Self.all_entries[nq]>>, Absent,
                                    Text("Exact nickname"))
            /\ (Outcome = TooShort) <=>
                  (~is_key /\ Len(nq) < MinLength /\ ~containsJp(nq))
            /\ (Outcome = TooShortJapanese) <=>
                  (~is_key /\ Len(nq) < MinJapaneseLength /\ containsJp(nq))

\* C17 witness: the three-letter query 'kal' is a nickname of the index it
\* is asked of and returns the owner of that nickname.
C17_Witness ==
    /\ Asked
    /\ Normalised = <<"k", "a", "l">>
    /\ Normalised \in DOMAIN Self.all_entries
    /\ Outcome = Returns(<<Self.all_entries[Normalised]>>, Absent,
                         Text("Exact nickname"))


Kali == <<"k", "a", "l", "i">>

\* The index asked has a low-priority monster of rarity 3 and a high-priority
\* monster of rarity 6 whose groups both have the basename 'kali'.
TwoKalis ==
    \E a, b \in Positions :
        /\ AllMonsters[a].is_low_priority /\ AllMonsters[a].rarity = 3
        /\ ~AllMonsters[b].is_low_priority /\ AllMonsters[b].rarity = 6
        /\ Kali \in AllMonsters[a].group_basenames
        /\ Kali \in AllMonsters[b].group_basenames

\* C18 (as stated): with such two monsters find_monster('kali') returns the
\* monster of rarity 6 and its label is that of the nickname-prefix stage.
C18_RaritySixByNicknamePrefix ==
    (Asked /\ Normalised = Kali /\ TwoKalis) =>
        /\ ReturnedMonster(Outcome)
        /\ MonsterOf(Outcome).rarity = 6
        /\ StageOf(Outcome) = 5

\* C18 (amended): with such two monsters and no nickname override for 'kali',
\* find_monster('kali') returns a high-priority monster with the label
\* 'Exact nickname'; it is the one of rarity 6 when every high-priority
\* monster that has the nickname 'kali' has rarity 6.
C18_RaritySixByExactNickname ==
    (Asked /\ Normalised = Kali /\ TwoKalis
           /\ Kali \notin DOMAIN data.nickname_overrides) =>
        /\ ReturnedMonster(Outcome)
        /\ Outcome.value[3] = Text("Exact nickname")
        /\ ~MonsterOf(Outcome).is_low_priority
        /\ Kali \in MonsterOf(Outcome).final_nicknames
        /\ (\A p \in Positions :
               (~AllMonsters[p].is_low_priority
                   /\ Kali \in AllMonsters[p].final_nicknames)
               => AllMonsters[p].rarity = 6)
           => MonsterOf(Outcome).rarity = 6

\* C18 witness: 'kali' has returned the monster of rarity 6, a group of its
\* own, though the low-priority monsters of rarity 3 have larger numbers and
\* a larger group.
C18_Witness ==
    /\ Asked /\ Normalised = Kali /\ TwoKalis
    /\ ReturnedMonster(Outcome)
    /\ MonsterOf(Outcome).rarity = 6
    /\ \E a \in Positions :
          /\ AllMonsters[a].is_low_priority /\ AllMonsters[a].rarity = 3
          /\ AllMonsters[a].monster_no_na > MonsterOf(Outcome).monster_no_na
          /\ AllMonsters[a].group_size > MonsterOf(Outcome).group_size


\* The evolution groups of the database the index is built from.
Groups ==
    {data.database.grouped_monsters[k] :
        k \in 1..Len(data.database.grouped_monsters)}

\* The five conditions of low priority, read from the database: four on the
\* base monster of the group, one on all its members.
LowPriorityByRule(g) ==
    LET base == data.database.mon[g.base_monster]
    IN  \/ lower(base.type1) \in
              {<<"e", "v", "o", "l", "v", "e">>,
               <<"e", "n", "h", "a", "n", "c", "e">>,
               <<"p", "r", "o", "t", "e", "c", "t", "e", "d">>,
               <<"a", "w", "o", "k", "e", "n">>,
               <<"v", "e", "n", "d", "o", "r">>}
        \/ contains(lower(base.name_na), <<"t", "a", "m", "a", "d", "r", "a">>)
        \/ base.rarity < 2
        \/ base.name_na = lower(base.name_na)
        \/ \A i \in 1..Len(g.members) : data.database.mon[g.members[i]].rarity < 5

OwnersOfKeysHolding(nq) ==
    OwnersOfKeys(LAMBDA n : contains(n, nq) /\ ~startswith(n, nq))

\* C22 (as stated): when a query passes the length gate, the id, exact
\* nickname, prefix, full name prefix and two-word stages find nothing, and
\* the query is a substring, not a prefix, of some nickname key, then
\* find_monster answers at the substring stage with the best, by the
\* tie-break key, of the owners of such keys.
C22_SubstringOfNicknameKeyResolves ==
    (/\ Asked
     /\ \A j \in 1..7 : ~Decides(j, Normalised)
     /\ OwnersOfKeysHolding(Normalised) # {})
        => /\ ReturnedMonster(Outcome)
           /\ StageOf(Outcome) = 8
           /\ Outcome.value[1][1] \in OwnersOfKeysHolding(Normalised)
           /\ \A p \in OwnersOfKeysHolding(Normalised) :
                 ~PickKeyBelow(MonsterOf(Outcome), AllMonsters[p])

\* C22 (amended): when a query passes the length gate, the id, exact
\* nickname, prefix, full name prefix and two-word stages find nothing, and
\* the query is a substring of the lowercased name_na or name_jp of some
\* monster that owns a nickname key, then find_monster answers at the
\* substring stage with the best, by the tie-break key, of those owners.
C22_SubstringOfOwnerNameResolves ==
    (/\ Asked
     /\ \A j \in 1..7 : ~Decides(j, Normalised)
     /\ Candidates(8, Normalised) # {})
        => /\ ReturnedMonster(Outcome)
           /\ StageOf(Outcome) = 8
           /\ Outcome.value[1][1] \in Candidates(8, Normalised)
           /\ \A p \in Candidates(8, Normalised) :
                 ~PickKeyBelow(MonsterOf(Outcome), AllMonsters[p])

\* C22 witness: the substring stage has answered a query that no key and no
\* name starts with, that a nickname key holds after its start, and that
\* the names of two owners contain; the owner returned ranks above the
\* other.
C22_Witness ==
    /\ Asked
    /\ \A j \in 1..7 : ~Decides(j, Normalised)
    /\ OwnersOfKeysHolding(Normalised) # {}
    /\ StageOf(Outcome) = 8
    /\ ReturnedMonster(Outcome)
    /\ \E p \in Candidates(8, Normalised) :
          PickKeyBelow(AllMonsters[p], MonsterOf(Outcome))

(***************************************************************************)
(*             Claims about the override tables (SpecOverrides)            *)
(***************************************************************************)

\* The rows of a table with two columns or more, a key and a value.
WellFormed(rows) ==
    {i \in 1..Len(rows) :
        /\ Len(rows[i]) >= 2
        /\ strip(rows[i][1]) # <<>>
        /\ strip(rows[i][2]) # <<>>}

\* The nickname rows whose value is all digits, the basename rows whose key
\* is.
NicknameRows ==
    {i \in WellFormed(files.nicknames) : isdigit(strip(files.nicknames[i][2]))}

BasenameRows ==
    {i \in WellFormed(files.basenames) : isdigit(strip(files.basenames[i][1]))}

\* C19 (as stated): whatever the two override files hold, the refresh raises
\* nothing and the index is built; nickname_overrides and basename_overrides
\* hold what the well-formed rows with a digit value (nickname file) or a
\* digit key (basename file) say, and nothing else.
C19_MalformedRowsAreDropped ==
    (cog.pc # "constructed") =>
        /\ cog.pc = "refreshed" /\ cog.raised = NoError
        /\ Len(index) = 1
        /\ \A i \in NicknameRows :
              lower(strip(files.nicknames[i][1])) \in DOMAIN cog.nickname_overrides
        /\ \A n \in DOMAIN cog.nickname_overrides :
              \E i \in NicknameRows :
                  /\ lower(strip(files.nicknames[i][1])) = n
                  /\ int_accepts(strip(files.nicknames[i][2]))
                  /\ int(strip(files.nicknames[i][2])) = cog.nickname_overrides[n]
        /\ \A i \in BasenameRows :
              /\ int_accepts(strip(files.basenames[i][1]))
              /\ int(strip(files.basenames[i][1])) \in DOMAIN cog.basename_overrides
              /\ lower(strip(files.basenames[i][2]))
                    \in cog.basename_overrides[int(strip(files.basenames[i][1]))]
        /\ \A no \in DOMAIN cog.basename_overrides :
              \A b \in cog.basename_overrides[no] :
                  \E i \in BasenameRows :
                      /\ int_accepts(strip(files.basenames[i][1]))
                      /\ int(strip(files.basenames[i][1])) = no
                      /\ lower(strip(files.basenames[i][2])) = b

\* The well-formed basename rows keyed by the alias id no.
BasenameRowsOf(no) ==
    {i \in WellFormed(files.basenames) :
        /\ int_accepts(strip(files.basenames[i][1]))
        /\ int(strip(files.basenames[i][1])) = no}

\* basename_overrides.get(no, [])
BasenameOverridesUsed(no) ==
    IF no \in DOMAIN cog.basename_overrides THEN cog.basename_overrides[no] ELSE {}

\* C25 (as stated): after a refresh, the basename override set used for the
\* group whose base monster has alias id no holds the lowercased value of
\* every well-formed basename row keyed by no, one element per distinct
\* value, and when that set is not empty the basenames of the group are that
\* set and nothing else.
C25_EveryBasenameRowOfAnId ==
    (cog.pc = "refreshed") =>
        /\ \A no \in 1..MaxIndexMonsters :
              BasenameOverridesUsed(no) =
                  {lower(strip(files.basenames[i][2])) : i \in BasenameRowsOf(no)}
        /\ \A k \in 1..Len(OverridesDatabase.grouped_monsters) :
              LET used == BasenameOverridesUsed(
                              OverridesDatabase.mon[
                                  OverridesDatabase.grouped_monsters[k].base_monster
                              ].monster_no_na)
              IN  used # {} =>
                      \A j \in 1..Len(OverridesDatabase.grouped_monsters[k].members) :
                          index[1].monster_no_to_named_monster[
                              OverridesDatabase.grouped_monsters[k].members[j]
                          ] \in DOMAIN index[1].all_monsters
                          /\ index[1].all_monsters[
                                 index[1].monster_no_to_named_monster[
                                     OverridesDatabase.grouped_monsters[k].members[j]]
                             ].group_basenames = used

(***************************************************************************)
(*              Claims about the refresh loops (SpecRefresh)               *)
(***************************************************************************)

Sleeping == task.pc \in {"sleep", "asyncio.sleep"}

Ended == task.pc \in {"done", "done reload_nicknames", "cancelled"}

\* The last pass of the loop made a refresh that returned (reload_nicknames:
\* or made none, its first pass): the last attribute the refresh assigns is
\* of the last attempt.
LastPassReturned ==
    IF task.pc = "sleep"
    THEN cog.index # Unset /\ cog.index.gen = attempt
    ELSE cog.id_to_monster.gen = attempt

\* C21: in reload_data_task and in reload_nicknames alike, the sleep that
\* follows a refresh that raised is the short wait and the sleep that follows
\* a refresh that returned is the long wait; the loop has ended only when the
\* cog is no longer registered, so no failed attempt ends it; and unless the
\* cog is unregistered the loop goes on to make every attempt explored.
C21_RefreshLoopKeepsAttempting ==
    /\ [](Sleeping =>
            task.wait_time = IF LastPassReturned THEN LongWait ELSE ShortWait)
    /\ [](Ended => ~task.registered)
    /\ <>(attempt = MaxAttempts \/ ~task.registered)

\* C21 witness: reload_data_task sleeps the short wait after its second
\* attempt, no attempt has published an index yet: the first failed attempt
\* did not end the loop.
C21_Witness ==
    /\ task.pc = "sleep"
    /\ attempt = 2
    /\ task.wait_time = ShortWait
    /\ task.registered
    /\ cog.index = Unset

(***************************************************************************)
(*                  Claims about PadInfo (SpecPadInfo)                     *)
(***************************************************************************)

\* An approved row whose id is the id of a stored monster.
ApprovedKnown(row) ==
    /\ row.approved = "TRUE"
    /\ int_accepts(row.mId)
    /\ int(row.mId) \in id_to_monster_keys

\* The override entries of a generation to which every such row was applied.
EveryKnownRowApplied(rows) ==
    populateWithOverrides(PgDataWrapper(0), SelectSeq(rows, ApprovedKnown)).pginfo.all_entries

\* C30 (as stated): after any sequence of refresh attempts, each of which may
\* raise at any step, the id map read by id queries and the nickname maps
\* read by name queries are of one generation, as findMonster sees them too,
\* and the generation built from the current sheet has every approved row
\* with a known id applied.
C30_IdAndNicknameMapsOfOneGeneration ==
    /\ cog.id_to_monster.gen = cog.pginfo.gen
    /\ observed.call = "findMonster" =>
          observed.id_to_monster.gen = observed.pginfo.gen
    /\ cog.pginfo.gen = cog.nickname_text.gen =>
          cog.pginfo.all_entries = EveryKnownRowApplied(cog.nickname_text.rows)

(***************************************************************************)
(*     Claims about basenames and prefixes of one monster (SpecNames)      *)
(***************************************************************************)

\* s without its leading blanks
lstrip(s) == IF strip(s) = <<>> THEN <<>>
             ELSE SubSeq(s, CHOOSE i \in 1..Len(s) :
                                s[i] # " " /\ \A j \in 1..(i - 1) : s[j] = " ",
                         Len(s))

\* s without the token at its start, when it starts with one of the two
WithoutLeadingToken(s) ==
    IF startswith(s, <<"a", "w", "o", "k", "e", "n">>)
    THEN SubSeq(s, 7, Len(s))
    ELSE IF startswith(s, <<"r", "e", "i", "n", "c", "a", "r", "n", "a", "t", "e", "d">>)
    THEN SubSeq(s, 13, Len(s))
    ELSE s

\* The basename by the stated rule: lowercase; with a comma, the text before
\* the first comma when what follows it starts with 'the ', else the text
\* after the last comma; without the token at the start of the kept text;
\* trimmed.
BasenameByRule(name) ==
    LET kept(l, parts) ==
            IF InSeq(l, ",")
            THEN IF startswith(lstrip(parts[2]), <<"t", "h", "e", " ">>)
                 THEN parts[1]
                 ELSE parts[Len(parts)]
            ELSE l
        of(l) == strip(WithoutLeadingToken(strip(kept(l, split(l, ",")))))
    IN  of(lower(name))

\* C23 (as stated): the basename computed for a monster is the one the rule
\* gives for its display name: a token is removed at the start of the kept
\* text also when that text is the part after a comma, no other occurrence
\* of the token is removed, and the monster is as it was.
C23_BasenameFollowsTheRule ==
    result.call = "_compute_monster_basename" =>
        /\ result.value = BasenameByRule(data.name_na)
        /\ result.m = data

\* The two concatenations of the short codes of attributes a and b.
Concatenations(a, b) ==
    UNION {{a1 \o a2, a1 \o <<"/">> \o a2} :
           <<a1, a2>> \in attr_short_prefix_map[a] \X attr_short_prefix_map[b]}

\* The short code and the long names of attribute a.
AttributeNames(a) == attr_short_prefix_map[a] \cup attr_long_prefix_map[a]

\* C24 (as stated): the prefixes of a monster with two attributes hold the
\* short code and the long names of the first attribute, those of the second
\* attribute, and both concatenations of the two short codes; the prefixes
\* of a monster with one attribute hold its short code and long names and
\* no concatenation.
C24_PrefixesOfBothAttributes ==
    result.call = "compute_prefixes" =>
        /\ AttributeNames(data.attr1) \subseteq result.value
        /\ data.attr2 # None =>
              /\ AttributeNames(data.attr2) \subseteq result.value
              /\ Concatenations(data.attr1, data.attr2) \subseteq result.value
        /\ data.attr2 = None =>
              \A a, b \in Fire..Dark :
                  Concatenations(a, b) \cap result.value = {}

\* C24 (amended): the prefixes of a monster with two attributes hold the
\* short code and the long names of the first attribute and both
\* concatenations of the two short codes, first attribute first, and no
\* other concatenation; the second attribute adds no short code and no long
\* name of its own.  The prefixes of a monster with one attribute hold its
\* short code and long names and no concatenation.
C24_PrefixesOfFirstAttributeAndPairs ==
    result.call = "compute_prefixes" =>
        /\ AttributeNames(data.attr1) \subseteq result.value
        /\ \A a \in (Fire..Dark) \ {data.attr1} :
              AttributeNames(a) \cap result.value = {}
        /\ \A a, b \in Fire..Dark :
              IF a = data.attr1 /\ b = data.attr2
              THEN Concatenations(a, b) \subseteq result.value
              ELSE Concatenations(a, b) \cap result.value = {}

\* C24 witness: the prefixes of a fire and water monster were computed; they
\* hold 'r', 'fire', 'rb' and 'r/b' and neither 'b' nor 'water'.
C24_Witness ==
    /\ result.call = "compute_prefixes"
    /\ data.attr1 = Fire /\ data.attr2 = Water
    /\ {<<"r">>, <<"f", "i", "r", "e">>, <<"r", "b">>, <<"r", "/", "b">>}
           \subseteq result.value
    /\ <<"b">> \notin result.value
    /\ <<"w", "a", "t", "e", "r">> \notin result.value

=============================================================================
